---- MODULE Spec2Model ----
(***************************************************************************)
(* Webhook relay engine of ottoauthMCP (createWebhookRelay): the event     *)
(* store, the serialized persistence queue, the delivery worker and the    *)
(* retry state machine, as a state machine over the relay's async steps.   *)
(* One action is one synchronous segment of the JavaScript code: from a    *)
(* call, or from a resumed await, up to the next await or the return.      *)
(*                                                                         *)
(* The environment (requests still to arrive, replay commands still to be  *)
(* issued, disk faults still to happen, how the gateway answers) is part   *)
(* of the state and is fixed by the initial condition of each              *)
(* specification.                                                          *)
(***************************************************************************)
EXTENDS Integers, Sequences, FiniteSets, TLC

\* ---------------------------------------------------------------- bounds
MaxTime == 0          \* the clock runs freely up to here, then only as far as a backoff needs
MaxProcs == 2         \* calls (ingestion, scan, replay) in progress at once
MaxSends == 2         \* times the provider sends the same event
MaxReplays == 1       \* replayEvent calls of the operator
MaxWriteFaults == 1   \* persistence writes that fail
MaxTimeoutMs == 2     \* the longest timeoutMs given to fetchWithTimeout
MaxServices == 2      \* services listed by GET /api/services
MaxMentions == 2      \* endpoints mentioned in the code blocks of one service's docs
MaxRefreshCalls == 3  \* refreshToolsFromOttoauth calls made in a run

\* ------------------------------------------------------- configuration
Ids == {"e1", "e2"}   \* resolved event ids (extractEventId) the requests carry
retryBaseMs == 1
GatewayUrls == {"", "gw"}

Null == -1            \* a null timestamp
NoId == "none"
Procs == 1..MaxProcs
AnyResult == -1       \* gwFailFirst: the gateway answers each call as it likes
AlwaysFail == 99      \* gwFailFirst: the gateway fails every call

VARIABLES
  events,        \* Map id -> StoredWebhookEvent (NoEvent when absent)
  order,         \* insertion order of the Map
  persistQueue,  \* writes issued and not finished, by awaiting call, in call order;
                 \* the head is executing
  running,
  worker,        \* the interval timer is set
  server,        \* "none" | "listening" | "closing" | "closed" | "error"
  gatewayUrl,
  gatewayAuthToken,
  retryMax,      \* options.retryMax
  now,           \* Date.now()
  procs,         \* receiveRawWebhook / processDueEvents / replayEvent calls in progress
  inbox,         \* environment: per id, signed well-formed requests still to arrive
  replayLeft,    \* environment: replayEvent calls still to be made
  writeFaults,   \* environment: persistence writes that will still fail
  gwFailFirst,   \* environment: the gateway fails the first gwFailFirst calls for an id
  calls,         \* history: per id, gateway calls (fetchImpl) started
  delays,        \* history: per id, the backoffs scheduleRetry has scheduled
  webhookSecret, \* options.webhookSecret
  allowUnsigned, \* options.allowUnsigned
  disk,          \* what fs.readFile(storePath).catch(() => "") yields
  writing,       \* the payload the executing write has serialized (NoWrite when none)
  sigInput,      \* the arguments of a verifyWebhookSignature call
  sigResult,     \* what the call returned
  reply,         \* the last query (listEvents, getEvent, getStatus) and what it returned
  mcp,           \* the enclosing MCP server (server.mjs): its start() and its refresh
  http           \* a fetchWithTimeout call of server.mjs

vars == <<events, order, persistQueue, running, worker, server, gatewayUrl,
          gatewayAuthToken, retryMax, now, procs, inbox, replayLeft, writeFaults,
          gwFailFirst, calls, delays, webhookSecret, allowUnsigned, disk, writing,
          sigInput, sigResult, reply, mcp, http>>

envVars == <<inbox, replayLeft, writeFaults, gwFailFirst>>

\* what no state-changing operation of the relay assigns
cfgVars == <<webhookSecret, allowUnsigned, sigInput, sigResult, reply, mcp, http>>

NoEvent == [status |-> "absent"]

\* url, token: what the call's fetchImpl was given
IdleProc == [kind |-> "idle", pc |-> "idle", cur |-> NoId, due |-> <<>>,
             inTry |-> FALSE, n |-> 0, url |-> "", token |-> ""]

Stored(id) == events[id] # NoEvent

Pow2(n) == 2 ^ n

Max(a, b) == IF a >= b THEN a ELSE b

Abs(a) == IF a >= 0 THEN a ELSE 0 - a

\* ------------------------------------------------------ the store file
\* raw content of the file, by what loadStore makes of it
EmptyFile == [kind |-> "empty", rows |-> <<>>]        \* absent or empty: raw is ""
Malformed == [kind |-> "malformed", rows |-> <<>>]    \* JSON.parse throws
NotArray ==                                           \* parses, Array.isArray is false
  [kind |-> "object", rows |-> <<[id |-> "e1", status |-> "pending"]>>]
NoWrite == [kind |-> "none", rows |-> <<>>]

\* a serialization that writes every attempt_count as 0
RowDropsCount(evs, id) == [evs[id] EXCEPT !.attempt_count = 0]

\* one element of the serialized array: the record
Row(evs, id) == evs[id]

\* the object events.set stores for a row, keyed by row.id: the row
Fields(row) == row

\* persistStore's payload: JSON.stringify([...events.values()]), in the Map's order
storePayload(evs, ord) ==
  [kind |-> "array", rows |-> [i \in 1..Len(ord) |-> Row(evs, ord[i])]]

\* loadStore's for-loop: rows whose id is a string are set into the Map
RECURSIVE loadRows(_, _, _)
loadRows(rows, evs, ord) ==
  IF rows = <<>> THEN [events |-> evs, order |-> ord]
  ELSE LET row == Head(rows)
       IN IF row.id \in Ids
          THEN loadRows(Tail(rows), [evs EXCEPT ![row.id] = Fields(row)],
                        IF evs[row.id] = NoEvent THEN Append(ord, row.id) ELSE ord)
          ELSE loadRows(Tail(rows), evs, ord)

\* a load without the Array.isArray test
loadStoreUnchecked(file, evs, ord) ==
  IF file.kind \in {"empty", "malformed"} THEN [events |-> evs, order |-> ord]
  ELSE loadRows(file.rows, evs, ord)

\* loadStore: the Map after it, from the Map before it and the file
loadStore(file, evs, ord) ==
  IF file.kind # "array" THEN [events |-> evs, order |-> ord]
  ELSE loadRows(file.rows, evs, ord)

\* loadStore calls logger.error
loadStoreLogs(file) == file.kind = "malformed"

\* ------------------------------------------------- signature verification
maxSkewMs == 1

Secrets == {"", "s1"}          \* options.webhookSecret: none, or configured
SignerKeys == {"s1", "s2"}     \* keys a sender may sign with

\* a header value is a sequence of characters: the digits 0..9, NonDigit for any other
NonDigit == 10
Zeros == <<0, 0, 0, 0, 0, 0, 0, 0, 0, 0>>

\* x-ottoauth-timestamp values: absent, not a number, seconds (at most 10
\* characters), milliseconds (more than 10)
TimestampHeaders ==
  {<<>>, <<NonDigit>>, <<0>>, <<2>>, <<2, NonDigit>>} \cup {Zeros \o <<k>> : k \in 0..4}

\* request bodies, by what JSON.parse and extractEventId make of them
RawBodies == [json : BOOLEAN, id : Ids]

\* a hex string: its length and its content
NoHex == [len |-> 0, val |-> <<"", <<>>, "", FALSE>>]
ShortHex == [len |-> 8, val |-> <<"junk", <<>>, "", FALSE>>]

\* crypto.createHmac("sha256", key).update(`${ts}.${body}`).digest("hex")
Hmac(key, ts, body) == [len |-> 64, val |-> <<key, ts, body.id, body.json>>]

\* x-ottoauth-signature values: an optional "sha256=" and a hex string
SignatureHeaders(ts, body) ==
  [prefix : BOOLEAN,
   hex : {NoHex, ShortHex} \cup {Hmac(k, ts, body) : k \in SignerKeys}
           \cup {Hmac("s1", <<0>>, body)}]

Requests ==
  UNION {{[rawBody |-> b, timestampHeader |-> t, signatureHeader |-> sh] :
             sh \in SignatureHeaders(t, b)} : b \in RawBodies, t \in TimestampHeaders}

RECURSIVE Number(_)
\* Number(raw) of a non-empty string: NaN (Null) unless every character is a digit
Number(raw) ==
  IF raw = <<>> THEN 0
  ELSE LET init == Number(SubSeq(raw, 1, Len(raw) - 1))
           last == raw[Len(raw)]
       IN IF last = NonDigit \/ init = Null THEN Null
          ELSE 10 * init + last

\* a parser that reads every header as milliseconds
parseTimestampMs(value) ==
  IF value = <<>> THEN Null ELSE Number(value)

parseTimestamp(value) ==
  IF value = <<>> THEN Null
  ELSE LET n == Number(value)
       IN IF n = Null THEN Null
          ELSE IF Len(value) <= 10 THEN n * 1000
          ELSE n

Ok == [ok |-> TRUE, reason |-> "none"]
Fail(reason) == [ok |-> FALSE, reason |-> reason]
NoResult == Fail("not_called")

\* a verification that lets allowUnsigned override a configured secret
verifyAllowFirst(rawBody, signatureHeader, timestampHeader, secret, allow, skew, t) ==
  IF allow THEN Ok
  ELSE IF secret = "" THEN Fail("missing_webhook_secret")
  ELSE IF signatureHeader = [prefix |-> FALSE, hex |-> NoHex] \/ timestampHeader = <<>>
  THEN Fail("missing_signature_headers")
  ELSE IF parseTimestamp(timestampHeader) = Null THEN Fail("invalid_timestamp")
  ELSE IF Abs(t - parseTimestamp(timestampHeader)) > skew THEN Fail("timestamp_out_of_range")
  ELSE LET provided == signatureHeader.hex
           expected == Hmac(secret, timestampHeader, rawBody)
       IN IF provided.len # expected.len THEN Fail("signature_mismatch")
          ELSE IF provided.val = expected.val THEN Ok ELSE Fail("signature_mismatch")

verifyWebhookSignature(rawBody, signatureHeader, timestampHeader, secret, allow, skew, t) ==
  IF secret = ""
  THEN IF allow THEN Ok ELSE Fail("missing_webhook_secret")
  ELSE IF signatureHeader = [prefix |-> FALSE, hex |-> NoHex] \/ timestampHeader = <<>>
  THEN Fail("missing_signature_headers")
  ELSE LET timestampMs == parseTimestamp(timestampHeader)
       IN IF timestampMs = Null THEN Fail("invalid_timestamp")
          ELSE IF Abs(t - timestampMs) > skew THEN Fail("timestamp_out_of_range")
          ELSE LET provided == signatureHeader.hex
                   expected == Hmac(secret, timestampHeader, rawBody)
               IN IF provided.len # expected.len THEN Fail("signature_mismatch")
                  ELSE IF provided.val = expected.val THEN Ok
                  ELSE Fail("signature_mismatch")

NoInput == [rawBody |-> [json |-> FALSE, id |-> "e1"], timestampHeader |-> <<>>,
            signatureHeader |-> [prefix |-> FALSE, hex |-> NoHex]]

\* ------------------------------------------------------------ strings
\* a string argument as its pieces: Space for a run of white space, any other piece
\* for a run of other characters (the arguments drawn hold at most one such run)
Space == " "

Str(text) == IF text = "" THEN <<>> ELSE <<text>>

RECURSIVE trimStart(_)
trimStart(s) == IF s # <<>> /\ Head(s) = Space THEN trimStart(Tail(s)) ELSE s

RECURSIVE trimEnd(_)
trimEnd(s) ==
  IF s # <<>> /\ s[Len(s)] = Space THEN trimEnd(SubSeq(s, 1, Len(s) - 1)) ELSE s

\* String.prototype.trim
trim(s) == LET t == trimEnd(trimStart(s)) IN IF t = <<>> THEN "" ELSE t[1]

\* an optional string argument: undefined, or a string
Absent == [given |-> FALSE, pieces |-> <<>>]
Given(s) == [given |-> TRUE, pieces |-> s]

\* ------------------------------------------------------------ event identity
\* the value of a property of the parsed payload: undefined (no such property), null,
\* a value that is neither null nor a string, or a string
Missing == [kind |-> "undefined", pieces |-> <<>>]
JsNull == [kind |-> "null", pieces |-> <<>>]
JsNumber == [kind |-> "number", pieces |-> <<>>]
JsString(pieces) == [kind |-> "string", pieces |-> pieces]

\* JSON.parse(rawBody) when it is not an object: a number, a string, true, null
NotObject ==
  [isObject |-> FALSE, id |-> Missing, event_id |-> Missing, eventId |-> Missing,
   type |-> Missing, event_type |-> Missing, eventType |-> Missing]

\* a parsed object (or array) with the given id properties and no type property
Object(id, event_id, eventId) ==
  [isObject |-> TRUE, id |-> id, event_id |-> event_id, eventId |-> eventId,
   type |-> Missing, event_type |-> Missing, eventType |-> Missing]

\* a ?? b
Coalesce(a, b) == IF a.kind \in {"undefined", "null"} THEN b ELSE a

\* crypto.createHash("sha256").update(rawBody).digest("hex").slice(0, 24): a name for
\* the digest of the bytes, different for different bytes
Sha256Hex24(rawBody) == rawBody

\* a derived id that also depends on how many events the store holds
extractEventIdSalted(payload, rawBody) ==
  LET candidate == Coalesce(payload.id, Coalesce(payload.event_id, payload.eventId))
  IN IF payload.isObject /\ candidate.kind = "string" /\ trim(candidate.pieces) # ""
     THEN trim(candidate.pieces)
     ELSE "evt_" \o Sha256Hex24(IF order = <<>> THEN rawBody ELSE "b0")

extractEventId(payload, rawBody) ==
  LET candidate == Coalesce(payload.id, Coalesce(payload.event_id, payload.eventId))
  IN IF payload.isObject /\ candidate.kind = "string" /\ trim(candidate.pieces) # ""
     THEN trim(candidate.pieces)
     ELSE "evt_" \o Sha256Hex24(rawBody)

\* the string, or null
extractEventType(payload) ==
  LET candidate == Coalesce(payload.type, Coalesce(payload.event_type, payload.eventType))
  IN IF payload.isObject /\ candidate.kind = "string" /\ trim(candidate.pieces) # ""
     THEN JsString(Str(trim(candidate.pieces)))
     ELSE JsNull

\* ------------------------------------------------------------ queries
NoReply == [op |-> "none"]

Min(a, b) == IF a <= b THEN a ELSE b

\* a limit or offset argument by what Number(input) makes of it: undefined (or null),
\* NaN, an infinity, or a finite number given in halves
Undefined == [kind |-> "undefined", halves |-> 0]
NaN == [kind |-> "nan", halves |-> 0]
Infinite == [kind |-> "infinity", halves |-> 0]
Num(halves) == [kind |-> "number", halves |-> halves]

\* input ?? dflt
OrDefault(input, dflt) == IF input.kind = "undefined" THEN Num(2 * dflt) ELSE input

clampNumber(input, min, max) ==
  IF input.kind # "number" THEN min
  ELSE Min(max, Max(min, input.halves \div 2))

\* Array.prototype.sort (stable) with a comparator that puts the earlier received first
RECURSIVE sortByReceivedAsc(_, _)
sortByReceivedAsc(evs, seq) ==
  IF seq = <<>> THEN <<>>
  ELSE LET x == seq[Len(seq)]
           sorted == sortByReceivedAsc(evs, SubSeq(seq, 1, Len(seq) - 1))
           before == SelectSeq(sorted, LAMBDA y : evs[y].received_at <= evs[x].received_at)
           after == SelectSeq(sorted, LAMBDA y : evs[y].received_at > evs[x].received_at)
       IN before \o <<x>> \o after

\* Array.prototype.sort (stable) with the comparator
\* Date.parse(b.received_at) - Date.parse(a.received_at)
RECURSIVE sortByReceived(_, _)
sortByReceived(evs, seq) ==
  IF seq = <<>> THEN <<>>
  ELSE LET x == seq[Len(seq)]
           sorted == sortByReceived(evs, SubSeq(seq, 1, Len(seq) - 1))
           before == SelectSeq(sorted, LAMBDA y : evs[y].received_at >= evs[x].received_at)
           after == SelectSeq(sorted, LAMBDA y : evs[y].received_at < evs[x].received_at)
       IN before \o <<x>> \o after

\* a listing in ascending order of received_at
listResultAsc(evs, ord, input) ==
  LET status == input.status
      limit == clampNumber(OrDefault(input.limit, 50), 1, 500)
      offset == clampNumber(OrDefault(input.offset, 0), 0, 10000)
      filtered == sortByReceivedAsc(evs,
                    SelectSeq(ord, LAMBDA id : status = "" \/ evs[id].status = status))
  IN [total |-> Len(filtered), limit |-> limit, offset |-> offset,
      events |-> SubSeq(filtered, offset + 1, Min(Len(filtered), offset + limit))]

\* what listEvents returns; the records it returns are named by their ids
listResult(evs, ord, input) ==
  LET status == input.status
      limit == clampNumber(OrDefault(input.limit, 50), 1, 500)
      offset == clampNumber(OrDefault(input.offset, 0), 0, 10000)
      filtered == sortByReceived(evs,
                    SelectSeq(ord, LAMBDA id : status = "" \/ evs[id].status = status))
  IN [total |-> Len(filtered), limit |-> limit, offset |-> offset,
      events |-> SubSeq(filtered, offset + 1, Min(Len(filtered), offset + limit))]

NullEvent == [id |-> "null"]

\* a lookup without the "?? null"
getEventRaw(evs, id) == IF evs[id] # NoEvent THEN Row(evs, id) ELSE evs[id]

\* what getEvent returns
getEventResult(evs, id) == IF evs[id] # NoEvent THEN Row(evs, id) ELSE NullEvent

\* what replayEvent returns without awaiting ("await": it goes on to persist)
replayResult(evs, id) ==
  IF evs[id] = NoEvent THEN [ok |-> FALSE, error |-> "not_found"]
  ELSE [ok |-> TRUE, error |-> "await"]

\* ------------------------------------------------------------ MCP server
\* the tools registered when the server is created: ottoauth_http_request,
\* webhook_status, ... (a name as its parts, which "_" joins)
StaticTools == {<<"ottoauth", "http", "request">>, <<"webhook", "status">>,
                <<"webhook", "list", "events">>, <<"webhook", "get", "event">>,
                <<"webhook", "replay", "event">>, <<"webhook", "set", "gateway">>}

\* createOttoauthMcpServer's closure and the process around it: started is how far
\* start() has come ("not_called", "relay_starting", "discovering", "resolved",
\* "rejected"), discoveries counts the discoverEndpoints calls and inProgress holds
\* those that have not settled, connected and exited are main's transport connection
\* and process.exit. endpointTools maps a tool name to its endpoint, registeredTools
\* holds the names whose handle the closure keeps, serverTools the names registered
\* on the McpServer. refreshCalls are the refreshToolsFromOttoauth calls made so far.
McpCreated == [started |-> "not_called", refreshTimer |-> FALSE, refreshPromise |-> FALSE,
               discoveries |-> 0, connected |-> FALSE, exited |-> FALSE,
               endpointTools |-> <<>>, registeredTools |-> {}, serverTools |-> StaticTools,
               lastRefreshAt |-> 0, inProgress |-> {}, refreshCalls |-> <<>>]

\* a fetchWithTimeout call: where it stands ("none": not made), the fetchImpl it was
\* given, its timer, its controller's signal, and what it settled with
NoPlan == [outcome |-> "none", at |-> 0]

NoCall == [pc |-> "none", plan |-> NoPlan, timer |-> FALSE, deadline |-> 0,
           aborted |-> FALSE, result |-> "none"]

\* ------------------------------------------------------------ Init
\* the relay as createWebhookRelay returns it
Created ==
  /\ events = [id \in Ids |-> NoEvent]
  /\ order = <<>>
  /\ persistQueue = <<>>
  /\ running = FALSE
  /\ worker = FALSE
  /\ server = "none"
  /\ procs = [p \in Procs |-> IdleProc]
  /\ calls = [id \in Ids |-> 0]
  /\ delays = [id \in Ids |-> <<>>]
  /\ writing = NoWrite
  /\ gatewayAuthToken = ""
  /\ reply = NoReply
  /\ mcp = McpCreated
  /\ http = NoCall

\* no verifyWebhookSignature call is singled out
Unverified == sigInput = NoInput /\ sigResult = NoResult

\* one event, sent MaxSends times; replay, disk faults, any gateway; the store file
\* absent; the outcome of each request's verification is left open
Init ==
  /\ Created
  /\ now = 0
  /\ disk = EmptyFile
  /\ webhookSecret = "s1"
  /\ allowUnsigned = FALSE
  /\ Unverified
  /\ gatewayUrl \in GatewayUrls
  /\ retryMax = 2
  /\ inbox = [id \in Ids |-> IF id = "e1" THEN MaxSends ELSE 0]
  /\ replayLeft = MaxReplays
  /\ writeFaults = MaxWriteFaults
  /\ gwFailFirst = AnyResult

\* --------------------------------------------------- pure helpers
\* a filter that forgets the retrying events
IsDuePendingOnly(evs, id, t) ==
  /\ evs[id] # NoEvent
  /\ evs[id].status = "pending"
  /\ evs[id].next_attempt_at <= t

\* processDueEvents' filter
IsDue(evs, id, t) ==
  /\ evs[id] # NoEvent
  /\ evs[id].status \in {"pending", "retrying"}
  /\ evs[id].next_attempt_at <= t

\* processDueEvents' sort by next_attempt_at (stable: ties keep the Map's order)
RECURSIVE DueFrom(_, _, _, _)
DueFrom(evs, ord, t, k) ==
  IF k > t THEN <<>>
  ELSE SelectSeq(ord, LAMBDA id : IsDue(evs, id, t) /\ evs[id].next_attempt_at = k)
       \o DueFrom(evs, ord, t, k + 1)

\* a scan that takes the due events in the Map's order
DueListUnsorted(evs, ord, t) == SelectSeq(ord, LAMBDA id : IsDue(evs, id, t))

DueList(evs, ord, t) == DueFrom(evs, ord, t, 0)

\* relayEvent up to its await of fetchImpl
relayEventBegin(ev, t) ==
  [ev EXCEPT !.attempt_count = @ + 1, !.last_attempt_at = t]

\* relayEvent's res.ok branch up to persistStore
relayEventOk(ev, t) ==
  [ev EXCEPT !.status = "delivered", !.last_error = "null", !.delivered_at = t]

Backoff(ev) == retryBaseMs * Pow2(Max(0, ev.attempt_count - 1))

\* a retry ladder that treats a pending event as a fresh one
scheduleRetryFresh(ev, t) ==
  IF ev.attempt_count >= retryMax /\ ev.status # "pending"
  THEN [ev EXCEPT !.last_error = "err", !.status = "dead_letter"]
  ELSE [ev EXCEPT !.last_error = "err", !.status = "retrying",
                  !.next_attempt_at = t + Backoff(ev)]

\* scheduleRetry up to persistStore
scheduleRetry(ev, t) ==
  IF ev.attempt_count >= retryMax
  THEN [ev EXCEPT !.last_error = "err", !.status = "dead_letter"]
  ELSE [ev EXCEPT !.last_error = "err", !.status = "retrying",
                  !.next_attempt_at = t + Backoff(ev)]

\* a replay that starts the attempt history afresh
replayResetCount(ev, t) ==
  [ev EXCEPT !.status = "pending", !.last_error = "null", !.next_attempt_at = t,
             !.attempt_count = 0]

\* replayEvent up to persistStore
replayReset(ev, t) ==
  [ev EXCEPT !.status = "pending", !.last_error = "null", !.next_attempt_at = t]

\* the record receiveRawWebhook creates
NewEvent(id, payload, t) ==
  [id |-> id, type |-> extractEventType(payload), payload |-> payload,
   status |-> "pending", received_at |-> t, attempt_count |-> 0,
   last_error |-> "null", next_attempt_at |-> t, last_attempt_at |-> Null,
   delivered_at |-> Null]

FreeProcs == {p \in Procs : procs[p].kind = "idle"}
LowestFree == CHOOSE p \in FreeProcs : \A q \in FreeProcs : p <= q

\* a chain in which the latest write runs first
persistStoreFront(queue, p) == <<p>> \o queue

\* persistStore() called by p: the write joins the queue and p awaits it
persistStore(queue, p) == Append(queue, p)

\* a write that serializes the Map as the calling step found it
startWriteBefore(queue, payload, evs, ord) ==
  IF queue = <<>> THEN storePayload(events, order) ELSE payload

\* the write persistStore chains starts at once when no write is executing, and then
\* serializes the Map as the calling step leaves it
startWrite(queue, payload, evs, ord) ==
  IF queue = <<>> THEN storePayload(evs, ord) ELSE payload

\* the head write has settled: the next one starts and serializes the Map
nextWrite(queue, evs, ord) ==
  IF queue = <<>> THEN NoWrite ELSE storePayload(evs, ord)

\* relayEvent(id) called with a configured gateway: runs to the fetchImpl await
BeginAttempt(p, kind, id, rest) ==
  /\ events' = [events EXCEPT ![id] = relayEventBegin(@, now)]
  /\ procs' = [procs EXCEPT ![p] = [kind |-> kind, pc |-> "fetch", cur |-> id,
                                    due |-> rest, inTry |-> FALSE,
                                    n |-> calls[id] + 1, url |-> gatewayUrl,
                                    token |-> gatewayAuthToken]]
  /\ calls' = [calls EXCEPT ![id] = @ + 1]

\* a scan that does not look at the gateway URL
processDueEventsAnyGateway(p, kind) ==
  IF ~running \/ DueList(events, order, now) = <<>>
  THEN /\ procs' = [procs EXCEPT ![p] = IdleProc]
       /\ UNCHANGED <<events, calls>>
  ELSE LET due == DueList(events, order, now)
       IN BeginAttempt(p, kind, Head(due), Tail(due))

\* a relay in which only the timer's scans deliver
processDueEventsOnTick(p, kind) ==
  IF kind # "tick" \/ ~running \/ gatewayUrl = "" \/ DueList(events, order, now) = <<>>
  THEN /\ procs' = [procs EXCEPT ![p] = IdleProc]
       /\ UNCHANGED <<events, calls>>
  ELSE LET due == DueList(events, order, now)
       IN BeginAttempt(p, kind, Head(due), Tail(due))

\* processDueEvents() run by p, from its call to its first await or its return
processDueEvents(p, kind) ==
  IF ~running \/ gatewayUrl = "" \/ DueList(events, order, now) = <<>>
  THEN /\ procs' = [procs EXCEPT ![p] = IdleProc]
       /\ UNCHANGED <<events, calls>>
  ELSE LET due == DueList(events, order, now)
       IN BeginAttempt(p, kind, Head(due), Tail(due))

\* the for-loop of processDueEvents resumed after relayEvent returned
ContinueScan(p) ==
  IF procs[p].due = <<>> \/ gatewayUrl = ""
  THEN /\ procs' = [procs EXCEPT ![p] = IdleProc]
       /\ UNCHANGED <<events, calls>>
  ELSE BeginAttempt(p, procs[p].kind, Head(procs[p].due), Tail(procs[p].due))

\* an ingestion that does not look the id up in the store
receiveResultNoDedup(sigOk, jsonOk, id) ==
  IF ~sigOk THEN [status |-> 401, duplicate |-> FALSE, evStatus |-> "none"]
  ELSE IF ~jsonOk THEN [status |-> 400, duplicate |-> FALSE, evStatus |-> "none"]
  ELSE [status |-> 0, duplicate |-> FALSE, evStatus |-> "await"]

\* an ingestion that parses the body before it verifies the signature
receiveResultJsonFirst(sigOk, jsonOk, id) ==
  IF ~jsonOk THEN [status |-> 400, duplicate |-> FALSE, evStatus |-> "none"]
  ELSE IF ~sigOk THEN [status |-> 401, duplicate |-> FALSE, evStatus |-> "none"]
  ELSE IF Stored(id) THEN [status |-> 200, duplicate |-> TRUE, evStatus |-> events[id].status]
  ELSE [status |-> 0, duplicate |-> FALSE, evStatus |-> "await"]

\* what receiveRawWebhook returns without awaiting ("await": it goes on to persist)
receiveResult(sigOk, jsonOk, id) ==
  IF ~sigOk THEN [status |-> 401, duplicate |-> FALSE, evStatus |-> "none"]
  ELSE IF ~jsonOk THEN [status |-> 400, duplicate |-> FALSE, evStatus |-> "none"]
  ELSE IF Stored(id) THEN [status |-> 200, duplicate |-> TRUE, evStatus |-> events[id].status]
  ELSE [status |-> 0, duplicate |-> FALSE, evStatus |-> "await"]

\* what receiveRawWebhook returns once its write has settled ("reject": the await throws)
receiveResume(ok, id) ==
  IF ok THEN [status |-> 202, duplicate |-> FALSE, evStatus |-> events[id].status]
  ELSE [status |-> 0, duplicate |-> FALSE, evStatus |-> "reject"]

\* ------------------------------------------------------------ actions
\* start() is the first call on the instance (server.mjs calls it before it serves)
start(bindOk) ==
  /\ server = "none"
  /\ order = <<>>
  /\ LET loaded == loadStore(disk, events, order)
     IN /\ events' = loaded.events
        /\ order' = loaded.order
  /\ IF bindOk
     THEN /\ running' = TRUE
          /\ worker' = TRUE
          /\ server' = "listening"
     ELSE /\ server' = "error"
          /\ UNCHANGED <<running, worker>>
  /\ UNCHANGED <<persistQueue, gatewayUrl, gatewayAuthToken, retryMax, now, procs, calls, delays,
                 disk, writing>>
  /\ UNCHANGED envVars
  /\ UNCHANGED cfgVars

\* stop() up to its await of server.close
stop ==
  /\ server = "listening"
  /\ running' = FALSE
  /\ worker' = FALSE
  /\ server' = "closing"
  /\ UNCHANGED <<events, order, persistQueue, gatewayUrl, gatewayAuthToken, retryMax, now, procs,
                 calls, delays, disk, writing>>
  /\ UNCHANGED envVars
  /\ UNCHANGED cfgVars

\* requests the listener has not answered yet: the receiveRawWebhook calls that await
\* their write
OpenRequests == {p \in Procs : procs[p].pc = "persistRx"}

\* the callback of server.close: every connection has ended; stop() resolves
serverClosed ==
  /\ server = "closing"
  /\ OpenRequests = {}
  /\ server' = "closed"
  /\ UNCHANGED <<events, order, persistQueue, running, worker, gatewayUrl,
                 gatewayAuthToken, retryMax, now, procs, calls, delays, disk, writing>>
  /\ UNCHANGED envVars
  /\ UNCHANGED cfgVars

\* receiveRawWebhook up to its return or its await of persistStore, for a request
\* whose signature check, JSON.parse and extractEventId come out as given
receiveRequest(sigOk, jsonOk, id, payload) ==
  /\ IF sigOk /\ jsonOk
     THEN /\ inbox[id] > 0
          /\ inbox' = [inbox EXCEPT ![id] = @ - 1]
     ELSE UNCHANGED inbox
  /\ IF receiveResult(sigOk, jsonOk, id).status # 0
     THEN UNCHANGED <<events, order, persistQueue, procs, writing>>
     ELSE /\ FreeProcs # {}
          /\ events' = [events EXCEPT ![id] = NewEvent(id, payload, now)]
          /\ order' = Append(order, id)
          /\ procs' = [procs EXCEPT ![LowestFree] =
                         [IdleProc EXCEPT !.kind = "ingest", !.pc = "persistRx", !.cur = id]]
          /\ persistQueue' = persistStore(persistQueue, LowestFree)
          /\ writing' = startWrite(persistQueue, writing, events', order')
  /\ UNCHANGED <<running, worker, server, gatewayUrl, gatewayAuthToken, retryMax, now,
                 replayLeft, writeFaults, gwFailFirst, calls, delays, disk>>
  /\ UNCHANGED cfgVars

\* what the provider sends for an id: the id in the payload's id property, and a type
\* that differs between the last transmission and the ones before it
Sent(id) ==
  [Object(JsString(<<id>>), Missing, Missing)
     EXCEPT !.type = JsString(<<IF inbox[id] > 1 THEN "first" ELSE "last">>)]

receiveRawWebhook(sigOk, jsonOk, id) == receiveRequest(sigOk, jsonOk, id, Sent(id))

\* the head write of persistQueue finishes; its owner resumes
persistDone(ok) ==
  /\ persistQueue # <<>>
  /\ IF ok THEN UNCHANGED writeFaults
     ELSE /\ writeFaults > 0
          /\ writeFaults' = writeFaults - 1
  /\ LET p == Head(persistQueue)
     IN
     IF procs[p].pc = "persistRx"
     THEN \* receiveRawWebhook resumes: immediate scan, or the rejection leaves it
          /\ persistQueue' = Tail(persistQueue)
          /\ UNCHANGED delays
          /\ IF ok
             THEN processDueEvents(p, "ingest")
             ELSE /\ procs' = [procs EXCEPT ![p] = IdleProc]
                  /\ UNCHANGED <<events, calls>>
     ELSE IF procs[p].pc = "persist0"
     THEN \* replayEvent resumes and calls relayEvent
          /\ persistQueue' = Tail(persistQueue)
          /\ UNCHANGED delays
          /\ IF ok /\ gatewayUrl # ""
             THEN BeginAttempt(p, "replay", procs[p].cur, <<>>)
             ELSE /\ procs' = [procs EXCEPT ![p] = IdleProc]
                  /\ UNCHANGED <<events, calls>>
     ELSE \* relayEvent resumes
          IF ok
          THEN /\ persistQueue' = Tail(persistQueue)
               /\ UNCHANGED delays
               /\ IF procs[p].kind = "replay"
                  THEN /\ procs' = [procs EXCEPT ![p] = IdleProc]
                       /\ UNCHANGED <<events, calls>>
                  ELSE ContinueScan(p)
          ELSE IF procs[p].inTry
          THEN \* the rejection is caught by relayEvent's catch: scheduleRetry
               LET id == procs[p].cur
                   ev == scheduleRetry(events[id], now)
               IN /\ events' = [events EXCEPT ![id] = ev]
                  /\ delays' = IF ev.status = "retrying"
                               THEN [delays EXCEPT ![id] = Append(@, Backoff(events[id]))]
                               ELSE delays
                  /\ procs' = [procs EXCEPT ![p].inTry = FALSE]
                  /\ persistQueue' = persistStore(Tail(persistQueue), p)
                  /\ UNCHANGED calls
          ELSE \* the rejection leaves relayEvent and its caller
               /\ persistQueue' = Tail(persistQueue)
               /\ procs' = [procs EXCEPT ![p] = IdleProc]
               /\ UNCHANGED <<events, calls, delays>>
  /\ IF ok THEN disk' = writing
     ELSE disk' \in {disk, EmptyFile, Malformed}
  /\ writing' = nextWrite(persistQueue',
                          IF ok /\ procs[Head(persistQueue)].kind \in {"tick", "ingest"}
                                /\ procs[Head(persistQueue)].pc = "persist"
                          THEN events ELSE events', order)
  /\ UNCHANGED <<order, running, worker, server, gatewayUrl, gatewayAuthToken, retryMax, now,
                 inbox, replayLeft, gwFailFirst>>
  /\ UNCHANGED cfgVars

\* how the gateway may answer the n-th call for an id
GatewayAnswers(n, res) ==
  \/ gwFailFirst = AnyResult
  \/ (res = "ok") = (n > gwFailFirst)

\* the gateway call of process p settles; relayEvent runs to persistStore
fetchReturn(p, res) ==
  /\ procs[p].pc = "fetch"
  /\ GatewayAnswers(procs[p].n, res)
  /\ LET id == procs[p].cur
         ev == IF res = "ok" THEN relayEventOk(events[id], now)
               ELSE scheduleRetry(events[id], now)
     IN /\ events' = [events EXCEPT ![id] = ev]
        /\ delays' = IF res # "ok" /\ ev.status = "retrying"
                     THEN [delays EXCEPT ![id] = Append(@, Backoff(events[id]))]
                     ELSE delays
        /\ procs' = [procs EXCEPT ![p].pc = "persist", ![p].inTry = (res # "throw")]
        /\ persistQueue' = persistStore(persistQueue, p)
        /\ writing' = startWrite(persistQueue, writing, events', order)
  /\ UNCHANGED <<order, running, worker, server, gatewayUrl, gatewayAuthToken, retryMax, now, calls, disk>>
  /\ UNCHANGED envVars
  /\ UNCHANGED cfgVars

\* the setInterval callback
tick ==
  /\ worker
  /\ FreeProcs # {}
  /\ processDueEvents(LowestFree, "tick")
  /\ UNCHANGED <<order, persistQueue, running, worker, server, gatewayUrl, gatewayAuthToken, retryMax,
                 now, delays, disk, writing>>
  /\ UNCHANGED envVars
  /\ UNCHANGED cfgVars

\* replayEvent up to its return (unknown id) or its await of persistStore
replayEvent(id) ==
  /\ replayLeft > 0
  /\ replayLeft' = replayLeft - 1
  /\ IF ~Stored(id)
     THEN UNCHANGED <<events, procs, persistQueue, writing>>
     ELSE /\ FreeProcs # {}
          /\ events' = [events EXCEPT ![id] = replayReset(@, now)]
          /\ procs' = [procs EXCEPT ![LowestFree] =
                         [IdleProc EXCEPT !.kind = "replay", !.pc = "persist0", !.cur = id,
                                          !.n = events[id].attempt_count]]
          /\ persistQueue' = persistStore(persistQueue, LowestFree)
          /\ writing' = startWrite(persistQueue, writing, events', order)
  /\ UNCHANGED <<order, running, worker, server, gatewayUrl, gatewayAuthToken, retryMax, now,
                 inbox, writeFaults, gwFailFirst, calls, delays, disk>>
  /\ UNCHANGED cfgVars

\* a setGateway that clears the field it is not given
OverwriteAlways(old, field) == trim(field.pieces)

\* if (typeof input.x === "string") x = input.x.trim()
Overwrite(old, field) == IF field.given THEN trim(field.pieces) ELSE old

\* the argument of a call that provides the URL alone
UrlOnly(url) == [gatewayUrl |-> Given(Str(url)), gatewayAuthToken |-> Absent]

setGateway(input) ==
  /\ gatewayUrl' = Overwrite(gatewayUrl, input.gatewayUrl)
  /\ gatewayAuthToken' = Overwrite(gatewayAuthToken, input.gatewayAuthToken)
  /\ UNCHANGED <<events, order, persistQueue, running, worker, server, retryMax, now,
                 procs, calls, delays, disk, writing>>
  /\ UNCHANGED envVars
  /\ UNCHANGED cfgVars

\* the three queries: they return and assign nothing
queryFrame ==
  /\ UNCHANGED <<events, order, persistQueue, running, worker, server, gatewayUrl,
                 gatewayAuthToken, retryMax, now, procs, calls, delays, disk, writing,
                 webhookSecret, allowUnsigned, sigInput, sigResult, mcp, http>>
  /\ UNCHANGED envVars

listEvents(input) ==
  /\ reply' = [op |-> "listEvents", arg |-> input,
               val |-> listResult(events, order, input)]
  /\ queryFrame

getEvent(id) ==
  /\ reply' = [op |-> "getEvent", arg |-> id, val |-> getEventResult(events, id)]
  /\ queryFrame

getStatus ==
  /\ reply' = [op |-> "getStatus", arg |-> "none",
               val |-> [running |-> running,
                        gateway_configured |-> gatewayUrl # "",
                        gateway_url |-> IF gatewayUrl = "" THEN "null" ELSE gatewayUrl,
                        events_total |-> Len(order),
                        retry_max |-> retryMax,
                        retry_base_ms |-> retryBaseMs]]
  /\ queryFrame

\* time passes
Waiting == \E id \in Ids : /\ Stored(id)
                           /\ events[id].status \in {"pending", "retrying"}
                           /\ events[id].next_attempt_at > now

advanceClock ==
  /\ now < MaxTime \/ Waiting
  /\ now' = now + 1
  /\ UNCHANGED <<events, order, persistQueue, running, worker, server, gatewayUrl, gatewayAuthToken,
                 retryMax, procs, calls, delays, disk, writing>>
  /\ UNCHANGED envVars
  /\ UNCHANGED cfgVars

Next ==
  \/ \E b \in BOOLEAN : start(b)
  \/ stop
  \/ serverClosed
  \/ \E s \in BOOLEAN, j \in BOOLEAN, id \in Ids : receiveRawWebhook(s, j, id)
  \/ \E ok \in BOOLEAN : persistDone(ok)
  \/ \E p \in Procs, res \in {"ok", "http", "throw"} : fetchReturn(p, res)
  \/ tick
  \/ \E id \in Ids : replayEvent(id)
  \/ \E url \in GatewayUrls : setGateway(UrlOnly(url))
  \/ advanceClock

Spec == Init /\ [][Next]_vars

\* ---------------------------------------------- automatic delivery only
\* events sent once; no replay, no disk fault, no reconfiguration, no stop:
\* two events with retryMax = 2, or one event with retryMax = 3
AutoInit ==
  /\ Created
  /\ now = 0
  /\ disk = EmptyFile
  /\ webhookSecret = "s1"
  /\ allowUnsigned = FALSE
  /\ Unverified
  /\ gatewayUrl = "gw"
  /\ \/ /\ retryMax = 2
        /\ inbox = [id \in Ids |-> 1]
     \/ /\ retryMax = 3
        /\ inbox = [id \in Ids |-> IF id = "e1" THEN 1 ELSE 0]
  /\ replayLeft = 0
  /\ writeFaults = 0
  /\ gwFailFirst \in {AnyResult, 0, 1, AlwaysFail}

AutoNext ==
  \/ start(TRUE)
  \/ \E s \in BOOLEAN, j \in BOOLEAN, id \in Ids : receiveRawWebhook(s, j, id)
  \/ persistDone(TRUE)
  \/ \E p \in Procs, res \in {"ok", "http", "throw"} : fetchReturn(p, res)
  \/ tick
  \/ advanceClock

AutoSpec == AutoInit /\ [][AutoNext]_vars

\* the timer keeps firing, every gateway call and every write settles, time passes
Fairness ==
  /\ WF_vars(tick)
  /\ WF_vars(persistDone(TRUE))
  /\ \A p \in Procs : WF_vars(\E res \in {"ok", "http", "throw"} : fetchReturn(p, res))
  /\ WF_vars(advanceClock)

LiveSpec == AutoInit /\ [][AutoNext]_vars /\ Fairness

\* the timer keeps firing, every write settles, time passes; whether a gateway call
\* settles is left to the gateway: relayEvent puts no timeout on fetchImpl
HangFairness ==
  /\ WF_vars(tick)
  /\ WF_vars(persistDone(TRUE))
  /\ WF_vars(advanceClock)

HangSpec == AutoInit /\ [][AutoNext]_vars /\ HangFairness

\* the automatic relay with a timer that never fires: what ingestion delivers by itself
NoTickNext ==
  \/ start(TRUE)
  \/ \E s \in BOOLEAN, j \in BOOLEAN, id \in Ids : receiveRawWebhook(s, j, id)
  \/ persistDone(TRUE)
  \/ \E p \in Procs, res \in {"ok", "http", "throw"} : fetchReturn(p, res)
  \/ advanceClock

\* every write and every gateway call settles
NoTickFairness ==
  /\ WF_vars(persistDone(TRUE))
  /\ \A p \in Procs : WF_vars(\E res \in {"ok", "http", "throw"} : fetchReturn(p, res))

NoTickSpec == AutoInit /\ [][NoTickNext]_vars /\ NoTickFairness

\* the automatic relay, stopped at any time
StopNext ==
  \/ start(TRUE)
  \/ stop
  \/ serverClosed
  \/ \E s \in BOOLEAN, j \in BOOLEAN, id \in Ids : receiveRawWebhook(s, j, id)
  \/ persistDone(TRUE)
  \/ \E p \in Procs, res \in {"ok", "http", "throw"} : fetchReturn(p, res)
  \/ tick
  \/ advanceClock

StopSpec == AutoInit /\ [][StopNext]_vars

\* ------------------------------------------------ signed requests
\* receiveRawWebhook(rawBody, headers) of a request with its headers
receiveSigned(req) ==
  receiveRawWebhook(verifyWebhookSignature(req.rawBody, req.signatureHeader,
                                           req.timestampHeader, webhookSecret,
                                           allowUnsigned, maxSkewMs, now).ok,
                    req.rawBody.json, req.rawBody.id)

\* ingestion alone: any secret configuration, each event sent once, no gateway
SignedInit ==
  /\ Created
  /\ now = 2
  /\ disk = EmptyFile
  /\ webhookSecret \in Secrets
  /\ allowUnsigned \in BOOLEAN
  /\ Unverified
  /\ gatewayUrl = ""
  /\ retryMax = 2
  /\ inbox = [id \in Ids |-> 1]
  /\ replayLeft = 0
  /\ writeFaults = MaxWriteFaults
  /\ gwFailFirst = AnyResult

SignedNext ==
  \/ start(TRUE)
  \/ \E req \in Requests : receiveSigned(req)
  \/ \E ok \in BOOLEAN : persistDone(ok)

SignedSpec == SignedInit /\ [][SignedNext]_vars

\* ------------------------------------------------ verifyWebhookSignature alone
\* one call of the function on drawn arguments
VerifyInit ==
  /\ Created
  /\ now \in {0, 2, 2000}
  /\ disk = EmptyFile
  /\ webhookSecret \in Secrets
  /\ allowUnsigned \in BOOLEAN
  /\ sigInput \in Requests
  /\ sigResult = NoResult
  /\ gatewayUrl = ""
  /\ retryMax = 2
  /\ inbox = [id \in Ids |-> 0]
  /\ replayLeft = 0
  /\ writeFaults = 0
  /\ gwFailFirst = AnyResult

verify ==
  /\ sigResult = NoResult
  /\ sigResult' = verifyWebhookSignature(sigInput.rawBody, sigInput.signatureHeader,
                                         sigInput.timestampHeader, webhookSecret,
                                         allowUnsigned, maxSkewMs, now)
  /\ UNCHANGED <<events, order, persistQueue, running, worker, server, gatewayUrl, gatewayAuthToken,
                 retryMax, now, procs, calls, delays, disk, writing,
                 webhookSecret, allowUnsigned, sigInput, reply, mcp, http>>
  /\ UNCHANGED envVars

VerifyNext == verify

VerifySpec == VerifyInit /\ [][VerifyNext]_vars

\* ------------------------------------------------ a restarted relay
\* a row as a previous instance wrote it
StoredRow(id, status, count, next) ==
  [id |-> id, type |-> JsNull, payload |-> Object(JsString(<<id>>), Missing, Missing),
   status |-> status, received_at |-> 0, attempt_count |-> count,
   last_error |-> IF count = 0 THEN "null" ELSE "err", next_attempt_at |-> next,
   last_attempt_at |-> IF count = 0 THEN Null ELSE 0,
   delivered_at |-> IF status = "delivered" THEN 0 ELSE Null]

\* an element of the array that is null or has no string id
NoIdRow == [id |-> NoId]

StoreFiles ==
  {EmptyFile, Malformed, NotArray}
    \cup {[kind |-> "array", rows |-> rows] :
            rows \in {<<>>,
                      <<StoredRow("e1", "pending", 0, 0)>>,
                      <<NoIdRow, StoredRow("e1", "retrying", 1, 2)>>,
                      <<StoredRow("e2", "delivered", 1, 0),
                        StoredRow("e1", "retrying", 1, 1)>>}}

\* a fresh instance on the file a previous one left; one more event arrives
ReloadInit ==
  /\ Created
  /\ now = 1
  /\ disk \in StoreFiles
  /\ webhookSecret = "s1"
  /\ allowUnsigned = FALSE
  /\ Unverified
  /\ gatewayUrl = "gw"
  /\ retryMax = 2
  /\ inbox = [id \in Ids |-> IF id = "e2" THEN 1 ELSE 0]
  /\ replayLeft = 0
  /\ writeFaults = 0
  /\ gwFailFirst = AnyResult

ReloadSpec == ReloadInit /\ [][AutoNext]_vars /\ Fairness

\* ------------------------------------------------ replays on a restarted relay
\* a fresh instance, later, on a file with a delivered and a dead-lettered event; the
\* operator replays, the provider sends the delivered event once more
ReplayInit ==
  /\ Created
  /\ now = 1
  /\ disk = [kind |-> "array", rows |-> <<StoredRow("e1", "delivered", 1, 0),
                                         StoredRow("e2", "dead_letter", 2, 0)>>]
  /\ webhookSecret = "s1"
  /\ allowUnsigned = FALSE
  /\ Unverified
  /\ gatewayUrl = "gw"
  /\ retryMax = 2
  /\ inbox = [id \in Ids |-> IF id = "e1" THEN 1 ELSE 0]
  /\ replayLeft = MaxReplays
  /\ writeFaults = 0
  /\ gwFailFirst = AnyResult

ReplayNext ==
  \/ AutoNext
  \/ \E id \in Ids : replayEvent(id)

ReplaySpec == ReplayInit /\ [][ReplayNext]_vars

\* ------------------------------------------------ queries on a loaded store
QueryIds == Ids \cup {"e3"}

\* a record as ingestion at t and at most one attempt leave it
QueryEvent(id, status, t) ==
  [NewEvent(id, Object(JsString(<<id>>), Missing, Missing), t)
     EXCEPT !.status = status,
            !.attempt_count = IF status = "pending" THEN 0 ELSE 1,
            !.last_attempt_at = IF status = "pending" THEN Null ELSE t,
            !.delivered_at = IF status = "delivered" THEN t ELSE Null]

StatusFilters == {"", "pending", "delivered", "dead_letter"}

\* 0, 1, 1.5, 2, 500, 501, -1 and the non-numbers
LimitInputs ==
  {Undefined, NaN, Infinite} \cup {Num(h) : h \in {0, 2, 3, 4, 1000, 1002, -2}}

\* 0, 0.5, 1, 2, 10001, -0.5 and the non-numbers
OffsetInputs ==
  {Undefined, NaN} \cup {Num(h) : h \in {0, 1, 2, 4, 20002, -1}}

ListInputs == [status : StatusFilters, limit : LimitInputs, offset : OffsetInputs]

\* a relay holding up to three events received in the order e1, e2, e3, nothing in
\* progress; it runs with a gateway, or is stopped without one
QueryInit ==
  /\ \E n \in 0..3, times \in [1..3 -> 0..2], sts \in [1..3 -> {"pending", "delivered"}] :
        LET ids == <<"e1", "e2", "e3">>
            at(id) == CHOOSE i \in 1..3 : ids[i] = id
        IN /\ times[1] <= times[2] /\ times[2] <= times[3]
           /\ order = SubSeq(ids, 1, n)
           /\ events = [id \in QueryIds |->
                          IF at(id) <= n THEN QueryEvent(id, sts[at(id)], times[at(id)])
                          ELSE NoEvent]
  /\ calls = [id \in QueryIds |-> IF Stored(id) THEN events[id].attempt_count ELSE 0]
  /\ delays = [id \in QueryIds |-> <<>>]
  /\ disk = storePayload(events, order)
  /\ persistQueue = <<>>
  /\ writing = NoWrite
  /\ procs = [p \in Procs |-> IdleProc]
  /\ running \in BOOLEAN
  /\ worker = running
  /\ server = IF running THEN "listening" ELSE "closed"
  /\ gatewayUrl = IF running THEN "gw" ELSE ""
  /\ gatewayAuthToken = ""
  /\ now = 2
  /\ retryMax = 2
  /\ webhookSecret = "s1"
  /\ allowUnsigned = FALSE
  /\ Unverified
  /\ reply = NoReply
  /\ mcp = McpCreated
  /\ http = NoCall
  /\ inbox = [id \in Ids |-> 0]
  /\ replayLeft = MaxReplays
  /\ writeFaults = 0
  /\ gwFailFirst = AnyResult

\* one query of the store, before or after a replayEvent of an unknown id
QueryNext ==
  \/ reply = NoReply /\ \E input \in ListInputs : listEvents(input)
  \/ reply = NoReply /\ \E id \in QueryIds : getEvent(id)
  \/ reply = NoReply /\ getStatus
  \/ \E id \in QueryIds : ~Stored(id) /\ replayEvent(id)

QuerySpec == QueryInit /\ [][QueryNext]_vars

\* ------------------------------------------------ reconfiguring the gateway
\* setGateway arguments: each field absent, empty or blank, or text within white space
UrlArgs == {Absent, Given(<<>>), Given(<<"gw">>), Given(<<Space, "gw2", Space>>)}
TokenArgs == {Absent, Given(<<Space>>), Given(<<"tk", Space>>)}
GatewayInputs == [gatewayUrl : UrlArgs, gatewayAuthToken : TokenArgs]

\* one event, a relay created without a gateway, setGateway called at any time
GatewayInit ==
  /\ Created
  /\ now = 0
  /\ disk = EmptyFile
  /\ webhookSecret = "s1"
  /\ allowUnsigned = FALSE
  /\ Unverified
  /\ gatewayUrl = ""
  /\ retryMax = 2
  /\ inbox = [id \in Ids |-> IF id = "e1" THEN 1 ELSE 0]
  /\ replayLeft = 0
  /\ writeFaults = 0
  /\ gwFailFirst = AnyResult

GatewayNext ==
  \/ start(TRUE)
  \/ \E id \in Ids : receiveRawWebhook(TRUE, TRUE, id)
  \/ persistDone(TRUE)
  \/ \E p \in Procs, res \in {"ok", "http", "throw"} : fetchReturn(p, res)
  \/ tick
  \/ \E input \in GatewayInputs : setGateway(input)
  \/ advanceClock

GatewaySpec == GatewayInit /\ [][GatewayNext]_vars

\* ------------------------------------------------ bodies and their ids
\* a request body: its bytes (named) and what JSON.parse makes of them
Bodies ==
  {[bytes |-> "b0", payload |-> Object(Missing, Missing, Missing)],
   [bytes |-> "b1", payload |-> Object(Missing, Missing, Missing)],
   [bytes |-> "b2", payload |-> NotObject],
   [bytes |-> "b3", payload |-> Object(JsString(<<Space>>), Missing, Missing)],
   [bytes |-> "b4", payload |-> Object(JsString(<<"a">>), Missing, Missing)]}

\* the ids these bodies can resolve to: a derived one, or the text of the id property
IdentityIds == {"evt_" \o Sha256Hex24(b.bytes) : b \in Bodies} \cup {"a"}

\* receiveRawWebhook(rawBody, headers) of a request without signature headers
receiveBody(body) ==
  receiveRequest(verifyWebhookSignature(body.bytes, NoInput.signatureHeader,
                                        NoInput.timestampHeader, webhookSecret,
                                        allowUnsigned, maxSkewMs, now).ok,
                 TRUE, extractEventId(body.payload, body.bytes), body.payload)

\* an unsigned relay without gateway; every body may be sent MaxSends times
IdentityInit ==
  /\ events = [id \in IdentityIds |-> NoEvent]
  /\ calls = [id \in IdentityIds |-> 0]
  /\ delays = [id \in IdentityIds |-> <<>>]
  /\ inbox = [id \in IdentityIds |-> MaxSends]
  /\ order = <<>>
  /\ persistQueue = <<>>
  /\ running = FALSE
  /\ worker = FALSE
  /\ server = "none"
  /\ procs = [p \in Procs |-> IdleProc]
  /\ writing = NoWrite
  /\ disk = EmptyFile
  /\ gatewayUrl = ""
  /\ gatewayAuthToken = ""
  /\ now = 0
  /\ retryMax = 2
  /\ webhookSecret = ""
  /\ allowUnsigned = TRUE
  /\ Unverified
  /\ reply = NoReply
  /\ mcp = McpCreated
  /\ http = NoCall
  /\ replayLeft = 0
  /\ writeFaults = 0
  /\ gwFailFirst = AnyResult

IdentityNext ==
  \/ start(TRUE)
  \/ \E body \in Bodies : receiveBody(body)
  \/ persistDone(TRUE)

IdentitySpec == IdentityInit /\ [][IdentityNext]_vars

\* ------------------------------------------------ extractEventId, extractEventType alone
PropertyValues ==
  {Missing, JsNull, JsNumber, JsString(<<>>), JsString(<<Space>>), JsString(<<"a">>),
   JsString(<<Space, "b">>)}

\* parsed payloads: the id properties drawn, or the type properties drawn
Payloads ==
  {NotObject}
    \cup {Object(v[1], v[2], v[3]) : v \in PropertyValues \X PropertyValues \X PropertyValues}
    \cup {[Object(Missing, Missing, Missing) EXCEPT !.type = v[1], !.event_type = v[2],
                                                     !.eventType = v[3]] :
             v \in PropertyValues \X PropertyValues \X PropertyValues}

\* one call of each function on a drawn payload
ExtractInit ==
  /\ \E payload \in Payloads :
        reply = [op |-> "extractArgs", arg |-> [bytes |-> "b1", payload |-> payload]]
  /\ events = [id \in Ids |-> NoEvent]
  /\ calls = [id \in Ids |-> 0]
  /\ delays = [id \in Ids |-> <<>>]
  /\ order = <<>>
  /\ persistQueue = <<>>
  /\ running = FALSE
  /\ worker = FALSE
  /\ server = "none"
  /\ procs = [p \in Procs |-> IdleProc]
  /\ writing = NoWrite
  /\ gatewayAuthToken = ""
  /\ mcp = McpCreated
  /\ http = NoCall
  /\ now = 0
  /\ disk = EmptyFile
  /\ gatewayUrl = ""
  /\ retryMax = 2
  /\ webhookSecret = ""
  /\ allowUnsigned = TRUE
  /\ Unverified
  /\ inbox = [id \in Ids |-> 0]
  /\ replayLeft = 0
  /\ writeFaults = 0
  /\ gwFailFirst = AnyResult

extract ==
  /\ reply.op = "extractArgs"
  /\ reply' = [op |-> "extract", arg |-> reply.arg,
               val |-> [id |-> extractEventId(reply.arg.payload, reply.arg.bytes),
                        type |-> extractEventType(reply.arg.payload)]]
  /\ queryFrame

ExtractNext == extract

ExtractSpec == ExtractInit /\ [][ExtractNext]_vars

\* ------------------------------------------------ the MCP server's start
\* what is left unchanged by the steps of server.mjs and main
relayFrame ==
  /\ UNCHANGED <<events, order, persistQueue, running, worker, server, gatewayUrl,
                 gatewayAuthToken, retryMax, now, procs, calls, delays, disk, writing,
                 webhookSecret, allowUnsigned, sigInput, sigResult, reply, http>>
  /\ UNCHANGED envVars

\* main calls app.start(), which calls webhookRelay.start() and awaits it
mcpStart ==
  /\ mcp.started = "not_called"
  /\ mcp' = [mcp EXCEPT !.started = "relay_starting"]
  /\ relayFrame

\* a start() that treats a failed relay start as it treats a failed discovery
startResumeCaught(srv) == "discovering"

\* start() resumed from its await of webhookRelay.start(): the rejection leaves it,
\* otherwise it goes on to refreshToolsFromOttoauth
startResume(srv) == IF srv = "error" THEN "rejected" ELSE "discovering"

\* a refreshToolsFromOttoauth that never returns the promise in progress
joinsNever(promise) == FALSE

\* if (refreshPromise) return refreshPromise
joins(promise) == promise

\* a refreshToolsFromOttoauth call as far as its first await: it joins the refresh in
\* progress, or starts the discovery and keeps its promise in refreshPromise
refreshToolsFromOttoauth(m, via) ==
  IF joins(m.refreshPromise)
  THEN [m EXCEPT !.refreshCalls = Append(@, [via |-> via, discovery |-> m.discoveries,
                                              leads |-> FALSE, outcome |-> "pending"])]
  ELSE [m EXCEPT !.refreshPromise = TRUE,
                 !.discoveries = @ + 1,
                 !.inProgress = @ \cup {m.discoveries + 1},
                 !.refreshCalls = Append(@, [via |-> via, discovery |-> m.discoveries + 1,
                                              leads |-> TRUE, outcome |-> "pending"])]

mcpResume ==
  /\ mcp.started = "relay_starting"
  /\ server \in {"listening", "error"}
  /\ mcp' = IF startResume(server) = "rejected"
            THEN [mcp EXCEPT !.started = "rejected"]
            ELSE [refreshToolsFromOttoauth(mcp, "start") EXCEPT !.started = "discovering"]
  /\ relayFrame

toolNames(discovered) == {discovered[i].toolName : i \in DOMAIN discovered}

\* endpointTools after endpointTools.set(endpoint.toolName, endpoint) for each
\* discovered endpoint: the last endpoint of a name stays
byToolName(discovered) ==
  [name \in toolNames(discovered) |->
     discovered[CHOOSE i \in DOMAIN discovered :
                  /\ discovered[i].toolName = name
                  /\ \A j \in DOMAIN discovered : discovered[j].toolName = name => j <= i]]

\* a refresh that empties the endpoint map before it awaits the discovery
refreshedCleared(m, result, t) ==
  IF result.kind = "rejected" THEN [m EXCEPT !.endpointTools = <<>>]
  ELSE [m EXCEPT !.endpointTools = byToolName(result.list),
                 !.registeredTools = toolNames(result.list),
                 !.serverTools = (@ \ m.registeredTools) \cup toolNames(result.list),
                 !.lastRefreshAt = t]

\* the async function behind refreshPromise, resumed from its await of
\* discoverEndpoints: a rejection leaves it; otherwise the endpoint map is rebuilt,
\* every handle is removed, a tool is registered for each entry of the map, and
\* lastRefreshAt is set
refreshed(m, result, t) ==
  IF result.kind = "rejected" THEN m
  ELSE [m EXCEPT !.endpointTools = byToolName(result.list),
                 !.registeredTools = toolNames(result.list),
                 !.serverTools = (@ \ m.registeredTools) \cup toolNames(result.list),
                 !.lastRefreshAt = t]

settledAs(result) == IF result.kind = "rejected" THEN "rejected" ELSE "fulfilled"

\* discovery d settles with result: the refresh behind it finishes, the call that
\* started it clears refreshPromise in its finally, and every call that awaits it
\* settles the same way. start() catches and logs the failure of its call, sets the
\* refresh timer and resolves.
discoveryDone(d, result) ==
  /\ d \in mcp.inProgress
  /\ LET after == refreshed(mcp, result, now)
         awaits(i) == /\ mcp.refreshCalls[i].discovery = d
                      /\ mcp.refreshCalls[i].outcome = "pending"
         byStart == \E i \in DOMAIN mcp.refreshCalls :
                      awaits(i) /\ mcp.refreshCalls[i].via = "start"
     IN mcp' = [after EXCEPT
                  !.inProgress = @ \ {d},
                  !.refreshPromise = FALSE,
                  !.refreshCalls = [i \in DOMAIN @ |->
                                      IF awaits(i) THEN [@[i] EXCEPT !.outcome = settledAs(result)]
                                      ELSE @[i]],
                  !.started = IF byStart THEN "resolved" ELSE @,
                  !.refreshTimer = IF byStart THEN TRUE ELSE @]
  /\ relayFrame

\* main resumed from its await of app.start(): it connects the transport, or its
\* catch logs the error and exits the process
main ==
  /\ mcp.started \in {"resolved", "rejected"}
  /\ ~mcp.connected
  /\ ~mcp.exited
  /\ mcp' = IF mcp.started = "resolved" THEN [mcp EXCEPT !.connected = TRUE]
            ELSE [mcp EXCEPT !.exited = TRUE]
  /\ relayFrame

\* the process started by main: one event arrives; the port may be taken
ServerInit ==
  /\ Created
  /\ now = 0
  /\ disk \in {EmptyFile, [kind |-> "array", rows |-> <<StoredRow("e2", "pending", 0, 0)>>]}
  /\ webhookSecret = "s1"
  /\ allowUnsigned = FALSE
  /\ Unverified
  /\ gatewayUrl = "gw"
  /\ retryMax = 2
  /\ inbox = [id \in Ids |-> IF id = "e1" THEN 1 ELSE 0]
  /\ replayLeft = 0
  /\ writeFaults = 0
  /\ gwFailFirst = AnyResult

\* the process has not exited
Alive == ~mcp.exited

\* how the first discovery may come out: it fails, or it finds no endpoint
InitialDiscoveries == {[kind |-> "rejected", list |-> <<>>], [kind |-> "returned", list |-> <<>>]}

\* the relay is started by the server's start() and runs while the process lives
ServerNext ==
  \/ mcpStart
  \/ mcp.started = "relay_starting" /\ \E b \in BOOLEAN : start(b)
  \/ mcpResume
  \/ \E result \in InitialDiscoveries : discoveryDone(1, result)
  \/ main
  \/ Alive /\ \E id \in Ids : receiveRawWebhook(TRUE, TRUE, id)
  \/ Alive /\ persistDone(TRUE)
  \/ Alive /\ \E p \in Procs, res \in {"ok", "http", "throw"} : fetchReturn(p, res)
  \/ Alive /\ tick
  \/ Alive /\ advanceClock

ServerSpec == ServerInit /\ [][ServerNext]_vars

\* ------------------------------------------------ fetchWithTimeout
\* what the fetchImpl of a call does when it is left alone: it fulfils with a response
\* (ok or not) or rejects with an error once the clock has reached `at`, never settles,
\* or throws when it is called
FetchPlans ==
  {[outcome |-> o, at |-> t] : o \in {"response", "not_ok", "error"},
                               t \in 0..(MaxTimeoutMs + 1)}
    \cup {[outcome |-> "never", at |-> 0], [outcome |-> "throws", at |-> 0]}

\* setTimeout: a delay below 1 ms is 1 ms
Delay(ms) == Max(1, ms)

\* a finally block that leaves the timer set
keepTimeout(timer) == timer

\* finally { clearTimeout(timeout) }
clearTimeout(timer) == FALSE

\* what an await of the fetchImpl promise yields, and whether by return or by throw
Awaited(outcome) ==
  [pc |-> IF outcome \in {"response", "not_ok"} THEN "fulfilled" ELSE "rejected",
   result |-> outcome]

httpFrame ==
  /\ UNCHANGED <<events, order, persistQueue, running, worker, server, gatewayUrl,
                 gatewayAuthToken, retryMax, procs, calls, delays, disk, writing,
                 webhookSecret, allowUnsigned, sigInput, sigResult, reply, mcp>>
  /\ UNCHANGED envVars

\* fetchWithTimeout up to its await: the controller, the timer, the call of fetchImpl
fetchWithTimeout(timeoutMs, plan) ==
  /\ http.pc = "none"
  /\ http' = IF plan.outcome = "throws"
             THEN [NoCall EXCEPT !.plan = plan, !.pc = Awaited("throws").pc,
                                 !.result = Awaited("throws").result,
                                 !.deadline = now + Delay(timeoutMs),
                                 !.timer = clearTimeout(TRUE)]
             ELSE [NoCall EXCEPT !.plan = plan, !.pc = "pending", !.timer = TRUE,
                                 !.deadline = now + Delay(timeoutMs)]
  /\ UNCHANGED now
  /\ httpFrame

\* the timer's callback: controller.abort()
onTimeout ==
  /\ http.timer
  /\ now >= http.deadline
  /\ http' = [http EXCEPT !.timer = FALSE, !.aborted = TRUE]
  /\ UNCHANGED now
  /\ httpFrame

\* the promise of fetchImpl settles (a fetch whose signal is aborted rejects with an
\* AbortError) and fetchWithTimeout resumes: finally, then return or throw
fetchSettles ==
  /\ http.pc = "pending"
  /\ \/ http.aborted
     \/ http.plan.outcome \in {"response", "not_ok", "error"} /\ now >= http.plan.at
  /\ LET outcome == IF http.aborted THEN "AbortError" ELSE http.plan.outcome
     IN http' = [http EXCEPT !.pc = Awaited(outcome).pc,
                             !.result = Awaited(outcome).result,
                             !.timer = clearTimeout(@)]
  /\ UNCHANGED now
  /\ httpFrame

timePasses ==
  /\ now < MaxTimeoutMs + 2
  /\ now' = now + 1
  /\ UNCHANGED http
  /\ httpFrame

\* one fetchWithTimeout call, made at any time
TimeoutInit ==
  /\ Created
  /\ now = 0
  /\ disk = EmptyFile
  /\ webhookSecret = ""
  /\ allowUnsigned = TRUE
  /\ Unverified
  /\ gatewayUrl = ""
  /\ retryMax = 2
  /\ inbox = [id \in Ids |-> 0]
  /\ replayLeft = 0
  /\ writeFaults = 0
  /\ gwFailFirst = AnyResult

TimeoutNext ==
  \/ \E timeoutMs \in 0..MaxTimeoutMs, plan \in FetchPlans : fetchWithTimeout(timeoutMs, plan)
  \/ onTimeout
  \/ fetchSettles
  \/ timePasses

\* the event loop runs a timer that is due and resumes an await whose promise can
\* settle; time passes
TimeoutFairness == WF_vars(onTimeout) /\ WF_vars(fetchSettles) /\ WF_vars(timePasses)

TimeoutSpec == TimeoutInit /\ [][TimeoutNext]_vars /\ TimeoutFairness

\* ------------------------------------------------ endpoint discovery
\* a service id as its characters; a path as its segments ("" between two slashes)
RawServiceIds == {JsNumber, JsString(<<"a">>), JsString(<<Space, "B">>), JsString(<<"*">>)}

toLowerCase(c) == IF c = "B" THEN "b" ELSE IF c = "GET" THEN "get"
                  ELSE IF c = "POST" THEN "post" ELSE c

RECURSIVE Join(_)
Join(chars) == IF chars = <<>> THEN "" ELSE Head(chars) \o Join(Tail(chars))

\* null is ""
safeServiceId(raw) ==
  IF raw.kind # "string" THEN ""
  ELSE LET value == [i \in DOMAIN trimEnd(trimStart(raw.pieces)) |->
                       toLowerCase(trimEnd(trimStart(raw.pieces))[i])]
       IN Join(SelectSeq(value, LAMBDA c : c \in {"a", "b"}))

Methods == {"GET", "POST"}
RawPaths == {<<"api", "x">>, <<"api", "", "x">>, <<"docs", "x">>}
NullPath == <<>>

\* normalizePath collapses repeated slashes; a path outside /api/ is dropped; a
\* placeholder segment becomes a parameter
normalizeDiscoveredPath(value) ==
  LET path == SelectSeq(value, LAMBDA seg : seg # "")
  IN IF Len(path) < 2 \/ path[1] # "api" THEN NullPath
     ELSE [i \in DOMAIN path |-> IF path[i] = "X_ID" THEN ":x" ELSE path[i]]

\* the tool name as its parts, which the name joins with "_"
toToolName(serviceId, method, path) ==
  <<"ottoauth", serviceId, toLowerCase(method)>>
    \o [i \in 1..(Len(path) - 1) |-> IF path[i + 1] = ":x" THEN "x" ELSE path[i + 1]]

buildEndpointTool(serviceId, method, path) ==
  [toolName |-> toToolName(serviceId, method, path), method |-> method, path |-> path,
   serviceId |-> serviceId]

\* the endpoints of one service's docs, in the order the code blocks mention them
extractEndpointsFromMarkdown(mentions, serviceId) ==
  LET kept == SelectSeq(mentions, LAMBDA m : normalizeDiscoveredPath(m.raw) # NullPath)
  IN [i \in DOMAIN kept |->
        buildEndpointTool(serviceId, kept[i].method, normalizeDiscoveredPath(kept[i].raw))]

\* a key that tells the services apart
endpointKeyByService(endpoint) == <<endpoint.serviceId, endpoint.method, endpoint.path>>

\* `${endpoint.method} ${endpoint.path}`
endpointKey(endpoint) == <<endpoint.method, endpoint.path>>

\* found.set(key, endpoint) for each endpoint: a known key keeps its place in the Map
RECURSIVE setAll(_, _)
setAll(found, endpoints) ==
  IF endpoints = <<>> THEN found
  ELSE LET e == Head(endpoints)
           known == {i \in DOMAIN found : endpointKey(found[i]) = endpointKey(e)}
       IN setAll(IF known = {} THEN Append(found, e)
                 ELSE [i \in DOMAIN found |-> IF i \in known THEN e ELSE found[i]],
                 Tail(endpoints))

\* a.localeCompare(b) < 0 for names (and their parts) over these characters
Alphabet == <<"a", "b", "get", "ottoauth", "post", "x">>
Rank(part) == CHOOSE i \in DOMAIN Alphabet : Alphabet[i] = part

RECURSIVE localeBefore(_, _)
localeBefore(a, b) ==
  IF a = <<>> THEN b # <<>>
  ELSE IF b = <<>> THEN FALSE
  ELSE IF Head(a) = Head(b) THEN localeBefore(Tail(a), Tail(b))
  ELSE Rank(Head(a)) < Rank(Head(b))

\* Array.prototype.sort by toolName (stable)
RECURSIVE sortByToolName(_)
sortByToolName(list) ==
  IF list = <<>> THEN <<>>
  ELSE LET rest == sortByToolName(Tail(list))
           before == SelectSeq(rest, LAMBDA e : localeBefore(e.toolName, Head(list).toolName))
           after == SelectSeq(rest, LAMBDA e : ~localeBefore(e.toolName, Head(list).toolName))
       IN before \o <<Head(list)>> \o after

Rejected == [kind |-> "rejected", list |-> <<>>]

\* the loop over the services: a docs request that throws leaves discoverEndpoints
RECURSIVE discoverFrom(_, _)
discoverFrom(services, found) ==
  IF services = <<>> THEN [kind |-> "returned", list |-> sortByToolName(found)]
  ELSE LET service == Head(services)
           serviceId == safeServiceId(service.id)
       IN IF serviceId = "" THEN discoverFrom(Tail(services), found)
          ELSE IF service.docs.res = "throws" THEN Rejected
          ELSE discoverFrom(Tail(services),
                            setAll(found,
                                   extractEndpointsFromMarkdown(
                                     IF service.docs.res = "ok" THEN service.docs.mentions
                                     ELSE <<>>, serviceId)))

\* input.res: how GET /api/services came out; input.services: payload.services
discoverEndpoints(input) ==
  IF input.res # "ok" THEN Rejected ELSE discoverFrom(input.services, <<>>)

\* what the Ottoauth server may answer
Mentions == [method : Methods, raw : RawPaths]

SeqsUpTo(S, n) == UNION {[1..k -> S] : k \in 0..n}

DocsAnswers ==
  {[res |-> "ok", mentions |-> m] : m \in SeqsUpTo(Mentions, MaxMentions)}
    \cup {[res |-> r, mentions |-> <<>>] : r \in {"not_ok", "throws"}}

DiscoveryInputs ==
  {[res |-> "ok", services |-> sv] :
     sv \in SeqsUpTo([id : RawServiceIds, docs : DocsAnswers], MaxServices)}
    \cup {[res |-> r, services |-> <<>>] : r \in {"not_ok", "throws"}}

\* one discoverEndpoints call against a drawn server
DiscoverInit ==
  /\ \E input \in DiscoveryInputs : reply = [op |-> "discoverArgs", arg |-> input]
  /\ events = [id \in Ids |-> NoEvent]
  /\ calls = [id \in Ids |-> 0]
  /\ delays = [id \in Ids |-> <<>>]
  /\ order = <<>>
  /\ persistQueue = <<>>
  /\ running = FALSE
  /\ worker = FALSE
  /\ server = "none"
  /\ procs = [p \in Procs |-> IdleProc]
  /\ writing = NoWrite
  /\ gatewayAuthToken = ""
  /\ mcp = McpCreated
  /\ http = NoCall
  /\ now = 0
  /\ disk = EmptyFile
  /\ gatewayUrl = ""
  /\ retryMax = 2
  /\ webhookSecret = ""
  /\ allowUnsigned = TRUE
  /\ Unverified
  /\ inbox = [id \in Ids |-> 0]
  /\ replayLeft = 0
  /\ writeFaults = 0
  /\ gwFailFirst = AnyResult

discover ==
  /\ reply.op = "discoverArgs"
  /\ reply' = [op |-> "discover", arg |-> reply.arg, val |-> discoverEndpoints(reply.arg)]
  /\ queryFrame

DiscoverSpec == DiscoverInit /\ [][discover]_vars

\* ------------------------------------------------ tool refresh
\* options.refreshIntervalMs
refreshIntervalMs == 1

\* the callback of the interval set by start()
refreshTick ==
  /\ mcp.refreshTimer
  /\ Len(mcp.refreshCalls) < MaxRefreshCalls
  /\ mcp' = refreshToolsFromOttoauth(mcp, "timer")
  /\ relayFrame

\* a tool handler calls ensureFreshTools: the passthrough tool with force after it
\* listed the services, a discovered tool without
ensureFreshTools(force) ==
  /\ mcp.connected
  /\ force \/ mcp.registeredTools # {}
  /\ Len(mcp.refreshCalls) < MaxRefreshCalls
  /\ LET stale == now - mcp.lastRefreshAt > refreshIntervalMs
     IN mcp' = IF force \/ stale \/ DOMAIN mcp.endpointTools = {}
               THEN refreshToolsFromOttoauth(mcp, "tool")
               ELSE mcp
  /\ relayFrame

\* a service whose docs mention the given endpoints
Documented(mentions) ==
  [id |-> JsString(<<"a">>), docs |-> [res |-> "ok", mentions |-> mentions]]

\* what the Ottoauth server may answer to a refresh: an error, no service, a service
\* with one endpoint, with two, with two endpoints whose tool names are the same,
\* and a service whose docs request throws
RefreshAnswers ==
  {[res |-> "not_ok", services |-> <<>>],
   [res |-> "ok", services |-> <<>>],
   [res |-> "ok", services |-> <<Documented(<<[method |-> "GET", raw |-> <<"api", "x">>]>>)>>],
   [res |-> "ok", services |-> <<Documented(<<[method |-> "GET", raw |-> <<"api", "x">>],
                                              [method |-> "POST", raw |-> <<"api", "x">>]>>)>>],
   [res |-> "ok", services |-> <<Documented(<<[method |-> "GET", raw |-> <<"api", "X_ID">>],
                                              [method |-> "GET", raw |-> <<"api", "x">>]>>)>>],
   [res |-> "ok", services |-> <<[id |-> JsString(<<"a">>),
                                  docs |-> [res |-> "throws", mentions |-> <<>>]]>>]}

\* the process started by main with no webhook traffic; Date.now() is far from 0
RefreshInit ==
  /\ Created
  /\ now = refreshIntervalMs + 1
  /\ disk = EmptyFile
  /\ webhookSecret = "s1"
  /\ allowUnsigned = FALSE
  /\ Unverified
  /\ gatewayUrl = "gw"
  /\ retryMax = 2
  /\ inbox = [id \in Ids |-> 0]
  /\ replayLeft = 0
  /\ writeFaults = 0
  /\ gwFailFirst = AnyResult

RefreshNext ==
  \/ mcpStart
  \/ mcp.started = "relay_starting" /\ \E b \in BOOLEAN : start(b)
  \/ mcpResume
  \/ \E d \in 1..MaxRefreshCalls, input \in RefreshAnswers :
       discoveryDone(d, discoverEndpoints(input))
  \/ main
  \/ Alive /\ refreshTick
  \/ Alive /\ \E force \in BOOLEAN : ensureFreshTools(force)
  \/ timePasses

RefreshSpec == RefreshInit /\ [][RefreshNext]_vars

\* ================================================================ claims
Terminal == {"delivered", "dead_letter"}

\* calls for which relayEvent has started the gateway call and not yet recorded its outcome
InFlight(id) == {p \in Procs : procs[p].pc = "fetch" /\ procs[p].cur = id}

\* C1: a receiveRawWebhook call whose resolved id is already stored returns the
\* duplicate outcome (200, duplicate) with the record's current status, and changes
\* no record, adds none, issues no persistence write and starts no scan.
C1_IdempotentIngestion ==
  [][\A id \in Ids :
       (Stored(id) /\ receiveRawWebhook(TRUE, TRUE, id)) =>
          /\ receiveResult(TRUE, TRUE, id) =
               [status |-> 200, duplicate |-> TRUE, evStatus |-> events[id].status]
          /\ events' = events
          /\ order' = order
          /\ persistQueue' = persistQueue
          /\ procs' = procs
          /\ calls' = calls]_vars

\* C1 witness: the event was sent twice and the second request arrived while the
\* first call's persistence write was still pending
C1_Witness ==
  \E id \in Ids, p \in Procs :
    /\ Stored(id)
    /\ inbox[id] = MaxSends - 2
    /\ procs[p].pc = "persistRx"
    /\ procs[p].cur = id

\* C2: for every event id at most one delivery attempt is in flight.
C2_MutualExclusion ==
  \A id \in Ids : Cardinality(InFlight(id)) <= 1

\* C3: with a gateway that fails every call and no replay, an event is dead-lettered
\* with attempt_count exactly retryMax and no (retryMax+1)-th call is ever started.
C3_DeadLetterBoundary ==
  \A id \in Ids :
    (gwFailFirst = AlwaysFail /\ Stored(id)) =>
       /\ calls[id] <= retryMax
       /\ events[id].status = "dead_letter" => events[id].attempt_count = retryMax

\* C4: once delivered or dead_letter, an event's status changes only by replayEvent
\* on that id, which sets it to pending.
C4_TerminalStable ==
  [][\A id \in Ids :
       (Stored(id) /\ events[id].status \in Terminal
          /\ events'[id].status # events[id].status) =>
            (events'[id].status = "pending" /\ replayEvent(id))]_vars

\* C5: with the relay running, a gateway configured, every gateway call returning,
\* every write succeeding and the timer firing, every pending or retrying event
\* eventually is delivered or dead_letter.
C5_EventualResolution ==
  \A id \in Ids :
    (running /\ gatewayUrl # "" /\ events[id].status \in {"pending", "retrying"})
      ~> (events[id].status \in Terminal)

\* C5 witness: a retrying event has been taken up again and resolved
C5_Witness ==
  \E id \in Ids :
    /\ running
    /\ events[id].status \in Terminal
    /\ events[id].attempt_count >= 2
    /\ Len(delays[id]) >= 1

\* nothing is in progress or scheduled for id any more
Settled(id) ==
  /\ events[id].status \in Terminal
  /\ \A p \in Procs : procs[p].kind # "idle" =>
        /\ procs[p].cur # id
        /\ \A i \in DOMAIN procs[p].due : procs[p].due[i] # id

\* C6: with a gateway that fails the first k calls for an event and succeeds from call
\* k+1 on, k < retryMax, and no replay, the event ends delivered with attempt_count
\* exactly k+1, delivered_at set and last_error null.
C6_RetryThenSucceed ==
  \A id \in Ids :
    (gwFailFirst \in 0..(retryMax - 1) /\ Stored(id) /\ Settled(id)) =>
       /\ events[id].status = "delivered"
       /\ events[id].attempt_count = gwFailFirst + 1
       /\ events[id].delivered_at # Null
       /\ events[id].last_error = "null"

\* C7: for every stored event, delivered_at is non-null if and only if status is delivered.
C7_DeliveredAtIffDelivered ==
  \A id \in Ids :
    Stored(id) => ((events[id].delivered_at # Null) <=> (events[id].status = "delivered"))

\* C8: attempt_count starts at 0, never decreases, and grows by exactly 1 with each
\* gateway call started for the event and by nothing else, so it equals the number
\* of gateway calls started for that id.
C8_AttemptCount ==
  /\ [](\A id \in Ids : Stored(id) => events[id].attempt_count = calls[id])
  /\ [][\A id \in Ids :
          /\ (~Stored(id) /\ events'[id] # NoEvent) => events'[id].attempt_count = 0
          /\ Stored(id) =>
               /\ events'[id] # NoEvent
               /\ events'[id].attempt_count >= events[id].attempt_count
               /\ events'[id].attempt_count - events[id].attempt_count
                    = calls'[id] - calls[id]
               /\ calls'[id] - calls[id] \in {0, 1}]_vars

\* C8 witness: an event that was sent twice, attempted more than once and replayed
C8_Witness ==
  \E id \in Ids :
    /\ Stored(id)
    /\ inbox[id] = 0
    /\ replayLeft = 0
    /\ events[id].attempt_count >= 3

\* C9: for an event driven only by automatic attempts, the n-th scheduled retry delay
\* is retryBaseMs * 2^(n-1), each delay strictly larger than the one before.
C9_BackoffSequence ==
  \A id \in Ids : \A n \in DOMAIN delays[id] :
    /\ delays[id][n] = retryBaseMs * Pow2(n - 1)
    /\ n > 1 => delays[id][n] > delays[id][n - 1]

\* C10: an automatic attempt is started for an event only if, when its gateway call
\* starts, the event is pending or retrying and its next_attempt_at is not in the future.
C10_AttemptOnlyWhenDue ==
  [][\A id \in Ids :
       (calls'[id] > calls[id] /\ \E p \in Procs : /\ procs'[p].pc = "fetch"
                                                  /\ procs'[p].cur = id
                                                  /\ procs'[p].kind \in {"tick", "ingest"}
                                                  /\ procs'[p] # procs[p])
         => IsDue(events, id, now)]_vars

\* the receiveRawWebhook call that process p runs is resumed by this step
Resumes(p, ok) ==
  /\ persistQueue # <<>>
  /\ Head(persistQueue) = p
  /\ procs[p].pc = "persistRx"
  /\ persistDone(ok)

\* C11: receiveRawWebhook returns one of four outcomes decided in this order: 401 if
\* the signature check fails, else 400 if the body is not JSON, else 200 duplicate if
\* the id is stored, else 202 with a new pending record; the 401 and 400 outcomes leave
\* the store unchanged and start no persistence write and no delivery attempt.
C11_FourOutcomes ==
  /\ [](\A s \in BOOLEAN, j \in BOOLEAN, id \in Ids :
          LET r == receiveResult(s, j, id)
          IN /\ ~s => (r.status = 401 /\ ~r.duplicate)
             /\ (s /\ ~j) => (r.status = 400 /\ ~r.duplicate)
             /\ (s /\ j /\ Stored(id)) => (r.status = 200 /\ r.duplicate)
             /\ (s /\ j /\ ~Stored(id)) => r.status = 0)
  /\ [][\A s \in BOOLEAN, j \in BOOLEAN, id \in Ids :
          receiveRawWebhook(s, j, id) =>
            /\ receiveResult(s, j, id).status \in {400, 401} =>
                  UNCHANGED <<events, order, persistQueue, procs, calls, disk, writing>>
            /\ receiveResult(s, j, id).status = 0 =>
                  /\ events'[id] # NoEvent
                  /\ events'[id].status = "pending"
                  /\ events'[id].attempt_count = 0
                  /\ \A other \in Ids \ {id} : events'[other] = events[other]]_vars
  /\ [][\A p \in Procs :
          Resumes(p, TRUE) => receiveResume(TRUE, procs[p].cur).status = 202]_vars

\* C11 witness: an accepted call has returned and the same event can still be sent again
C11_Witness ==
  \E id \in Ids :
    /\ Stored(id)
    /\ inbox[id] = MaxSends - 1
    /\ persistQueue = <<>>
    /\ \A p \in Procs : procs[p].kind = "idle"

\* the request carries what the configured secret demands
ValidlySigned(req) ==
  /\ req.signatureHeader.hex = Hmac(webhookSecret, req.timestampHeader, req.rawBody)
  /\ parseTimestamp(req.timestampHeader) # Null
  /\ Abs(now - parseTimestamp(req.timestampHeader)) <= maxSkewMs

HeadersPresent(req) ==
  /\ req.signatureHeader # [prefix |-> FALSE, hex |-> NoHex]
  /\ req.timestampHeader # <<>>

\* C12: with a secret configured, every record receiveRawWebhook creates comes from a
\* request whose signature equals the HMAC of timestamp "." body under that secret and
\* whose timestamp is within maxSkew of now; a wrong signature yields
\* signature_mismatch, a stale timestamp yields timestamp_out_of_range even with a
\* correct signature, and allowUnsigned changes nothing while a secret is configured.
C12_SignedIngestion ==
  /\ [][\A req \in Requests :
          (webhookSecret # "" /\ events'[req.rawBody.id] # events[req.rawBody.id]
             /\ receiveSigned(req)) => ValidlySigned(req)]_vars
  /\ [](webhookSecret # "" =>
          \A req \in Requests :
            LET res(allow) == verifyWebhookSignature(req.rawBody, req.signatureHeader,
                                                    req.timestampHeader, webhookSecret,
                                                    allow, maxSkewMs, now)
                ts == parseTimestamp(req.timestampHeader)
                right == Hmac(webhookSecret, req.timestampHeader, req.rawBody)
            IN /\ res(TRUE) = res(FALSE)
               /\ (HeadersPresent(req) /\ ts # Null /\ Abs(now - ts) <= maxSkewMs
                     /\ req.signatureHeader.hex # right)
                    => res(allowUnsigned) = Fail("signature_mismatch")
               /\ (HeadersPresent(req) /\ ts # Null /\ Abs(now - ts) > maxSkewMs)
                    => res(allowUnsigned) = Fail("timestamp_out_of_range"))

\* C12 witness: a secret is configured, allowUnsigned is set, and a record was created
C12_Witness ==
  /\ webhookSecret # ""
  /\ allowUnsigned
  /\ \E id \in Ids : Stored(id) /\ events[id].received_at = now

\* the rule list applied to a call's arguments
FirstRule(req, secret, allow, t) ==
  LET ts == req.timestampHeader
      numeric == ts # <<>> /\ \A i \in DOMAIN ts : ts[i] # NonDigit
      ms == IF Len(ts) <= 10 THEN 1000 * Number(ts) ELSE Number(ts)
  IN IF secret = "" THEN (IF allow THEN Ok ELSE Fail("missing_webhook_secret"))
     ELSE IF ~HeadersPresent(req) THEN Fail("missing_signature_headers")
     ELSE IF ~numeric THEN Fail("invalid_timestamp")
     ELSE IF Abs(t - ms) > maxSkewMs THEN Fail("timestamp_out_of_range")
     ELSE IF \/ req.signatureHeader.hex.len # 64
             \/ req.signatureHeader.hex # Hmac(secret, ts, req.rawBody)
     THEN Fail("signature_mismatch")
     ELSE Ok

\* C13: verifyWebhookSignature returns what the first applicable rule gives: no secret
\* (ok iff allowUnsigned, else missing_webhook_secret), a header absent
\* (missing_signature_headers), a non-numeric timestamp (invalid_timestamp; at most 10
\* digits are seconds, more are milliseconds), a timestamp further than maxSkew from
\* now (timestamp_out_of_range), a signature differing from the HMAC in length or
\* content (signature_mismatch), otherwise ok; and it changes no state.
C13_VerifyRules ==
  /\ [](sigResult # NoResult =>
          sigResult = FirstRule(sigInput, webhookSecret, allowUnsigned, now))
  /\ [][verify => UNCHANGED <<events, order, persistQueue, running, worker, server,
                              gatewayUrl, procs, disk, writing, webhookSecret,
                              allowUnsigned, now>>]_vars

\* C13 witness: a header of one digit was read as seconds and found within range, and
\* the prefixed signature was accepted
C13_Witness ==
  /\ sigResult = Ok
  /\ webhookSecret # ""
  /\ sigInput.timestampHeader = <<2>>
  /\ sigInput.signatureHeader.prefix
  /\ now = 2000

\* C14: receiveRawWebhook returns the accepted outcome without waiting for any gateway
\* response, and the status it reports for the new event is pending.
C14_ReturnsPending ==
  [][\A p \in Procs :
       Resumes(p, TRUE) =>
         receiveResume(TRUE, procs[p].cur) =
           [status |-> 202, duplicate |-> FALSE, evStatus |-> "pending"]]_vars

\* the file holds a row for id
OnDisk(file, id) ==
  /\ file.kind = "array"
  /\ \E i \in DOMAIN file.rows : file.rows[i].id = id

\* C15: when receiveRawWebhook returns the accepted outcome for an event, a write whose
\* snapshot contains the event has completed successfully; when that write fails the
\* call does not return accepted.
C15_AcceptedDurable ==
  [][\A p \in Procs :
       /\ Resumes(p, TRUE) =>
            /\ receiveResume(TRUE, procs[p].cur).status = 202
            /\ OnDisk(disk', procs[p].cur)
       /\ Resumes(p, FALSE) =>
            /\ receiveResume(FALSE, procs[p].cur).status # 202
            /\ procs'[p] = IdleProc
            /\ calls' = calls]_vars

\* C15 witness: an accepted call has returned, its event is on disk and unattempted
C15_Witness ==
  \E id \in Ids :
    /\ Stored(id)
    /\ events[id].attempt_count = 0
    /\ OnDisk(disk, id)
    /\ \A p \in Procs : procs[p].kind = "idle"

\* C16: a failed persistence write makes the operation that issued it (ingestion,
\* replay, delivery) reject; the failure is not turned into another outcome and
\* changes no record.
C16_WriteFailurePropagates ==
  [][\A p \in Procs :
       (persistQueue # <<>> /\ Head(persistQueue) = p /\ persistDone(FALSE)) =>
          /\ procs'[p] = IdleProc
          /\ events' = events]_vars

\* C17: one write executes at a time; writes execute in the order of the persistStore
\* calls; a write starts when its predecessor has settled, whether it succeeded or
\* failed; a failed write does not block later writes and is reported to its own
\* caller only.
C17_SerializedWrites ==
  /\ [](writing = NoWrite <=> persistQueue = <<>>)
  /\ [](\A i \in DOMAIN persistQueue : \A k \in DOMAIN persistQueue :
          persistQueue[i] = persistQueue[k] => i = k)
  /\ [][persistQueue' # persistQueue =>
          \/ /\ \E p \in Procs : persistQueue' = Append(persistQueue, p)
             /\ disk' = disk
             /\ persistQueue # <<>> => writing' = writing
          \/ /\ persistQueue # <<>>
             /\ \/ persistQueue' = Tail(persistQueue)
                \/ \E p \in Procs : persistQueue' = Append(Tail(persistQueue), p)]_vars
  /\ [][disk' # disk => (persistQueue # <<>> /\ disk' \in {writing, EmptyFile, Malformed})]_vars
  /\ [][\A ok \in BOOLEAN :
          (persistQueue # <<>> /\ persistDone(ok)) =>
             \A q \in Procs \ {Head(persistQueue)} : procs'[q] = procs[q]]_vars
  /\ [](persistQueue # <<>> => ENABLED persistDone(TRUE))

\* C17 witness: a write has failed and two later writes are outstanding
C17_Witness ==
  /\ writeFaults < MaxWriteFaults
  /\ Len(persistQueue) >= 2

\* no call is in progress and no write is outstanding
Quiescent ==
  /\ persistQueue = <<>>
  /\ \A p \in Procs : procs[p].kind = "idle"

\* the Map of a fresh instance after loadStore on the file
Loaded(file) == loadStore(file, [id \in Ids |-> NoEvent], <<>>)

\* C18: whenever no operation is in progress (and no write has failed), the file
\* holds exactly the in-memory records, every field equal, and a fresh instance
\* started on it holds the same id-to-record map and resumes automatic delivery of
\* the events that are pending or retrying.
C18_SnapshotRoundTrip ==
  /\ []((Quiescent /\ (server # "none" \/ order # <<>>)) =>
          /\ Loaded(disk) = [events |-> events, order |-> order]
          /\ (disk.kind = "array" /\ \A i \in DOMAIN disk.rows : disk.rows[i] # NoIdRow)
                => disk = storePayload(events, order))
  /\ [][start(TRUE) => (events' = Loaded(disk).events /\ order' = Loaded(disk).order)]_vars
  /\ \A id \in Ids :
        (server = "listening" /\ Stored(id) /\ events[id].status \in {"pending", "retrying"})
          ~> (events[id].status \in Terminal)

\* C18 witness: an event loaded from the file was attempted by the new instance,
\* resolved, and written back
C18_Witness ==
  /\ Quiescent
  /\ server = "listening"
  /\ Stored("e1")
  /\ events["e1"].received_at < now
  /\ events["e1"].status \in Terminal
  /\ calls["e1"] >= 1
  /\ disk = storePayload(events, order)

\* C19: loading the store never fails startup: an absent file, malformed content and
\* well-formed non-array content each leave the store empty (malformed content is
\* logged), and start() goes on to listen and run.
C19_LoadNeverFailsStart ==
  [][start(TRUE) =>
       /\ disk.kind # "array" => (events' = [id \in Ids |-> NoEvent] /\ order' = <<>>)
       /\ disk = Malformed => loadStoreLogs(disk)
       /\ disk \in {EmptyFile, NotArray} => ~loadStoreLogs(disk)
       /\ running'
       /\ worker'
       /\ server' = "listening"]_vars

\* C19 witness: the relay runs on an empty store beside a file it could not use
C19_Witness ==
  /\ disk \in {Malformed, NotArray}
  /\ running
  /\ server = "listening"
  /\ order = <<>>

\* C20: replayEvent on a stored id with a gateway configured sets status pending,
\* clears last_error, sets next_attempt_at to now, keeps attempt_count, persists, and
\* then makes exactly one delivery attempt for the id: attempt_count is one more than
\* at the call when that attempt starts and when the call returns, whatever scans
\* interleave.
C20_ReplayOneAttempt ==
  [][/\ \A id \in Ids :
          (Stored(id) /\ replayEvent(id)) =>
             /\ events'[id].status = "pending"
             /\ events'[id].last_error = "null"
             /\ events'[id].next_attempt_at = now
             /\ events'[id].attempt_count = events[id].attempt_count
     /\ \A p \in Procs :
          (persistQueue # <<>> /\ Head(persistQueue) = p /\ procs[p].kind = "replay"
             /\ gatewayUrl # "" /\ persistDone(TRUE)) =>
             /\ procs[p].pc = "persist0" =>
                   events'[procs[p].cur].attempt_count = procs[p].n + 1
             /\ procs[p].pc = "persist" =>
                   events[procs[p].cur].attempt_count = procs[p].n]_vars

C22_QueriesHaveNoEffect ==
  /\ [][(\/ reply'.op = "listEvents" /\ listEvents(reply'.arg)
         \/ reply'.op = "getEvent" /\ getEvent(reply'.arg)
         \/ reply'.op = "getStatus" /\ getStatus) =>
          UNCHANGED <<events, order, gatewayUrl, gatewayAuthToken, running, worker,
                      persistQueue, writing, disk, procs, calls>>]_vars
  /\ [](reply.op = "getEvent" =>
          IF Stored(reply.arg) THEN reply.val.id = reply.arg ELSE reply.val = NullEvent)
  /\ [][\A id \in QueryIds :
          (~Stored(id) /\ replayEvent(id)) =>
             /\ replayResult(events, id) = [ok |-> FALSE, error |-> "not_found"]
             /\ UNCHANGED <<events, order, persistQueue, writing, disk, procs,
                            calls>>]_vars

\* C22 witness: an unknown id was replayed and then looked up, beside stored events
C22_Witness ==
  /\ reply.op = "getEvent"
  /\ ~Stored(reply.arg)
  /\ reply.val = NullEvent
  /\ replayLeft < MaxReplays
  /\ order # <<>>

\* the stored events a status filter keeps
Matching(status) ==
  {id \in QueryIds : Stored(id) /\ (status = "" \/ events[id].status = status)}

\* a number n brought into lo..hi
Clamped(n, lo, hi) == IF n < lo THEN lo ELSE IF n > hi THEN hi ELSE n

\* C23: listEvents returns the slice [offset, offset+limit) of the events matching the
\* status filter in descending order of received_at, total is the number of matching
\* events, limit lies in 1..500 and offset in 0..10000 whatever the inputs (a finite
\* number is rounded down and brought into the range); limit 1 and offset 1 over
\* three events give the second most recently received.
C23_ListPage ==
  reply.op = "listEvents" =>
    LET in == reply.arg
        out == reply.val
        match == Matching(in.status)
        at(id) == events[id].received_at
    IN /\ out.total = Cardinality(match)
       /\ out.limit \in 1..500
       /\ out.offset \in 0..10000
       /\ in.limit.kind = "number" => out.limit = Clamped(in.limit.halves \div 2, 1, 500)
       /\ in.offset.kind = "number" =>
             out.offset = Clamped(in.offset.halves \div 2, 0, 10000)
       /\ Len(out.events) = Max(0, Min(out.limit, out.total - out.offset))
       /\ \A i \in DOMAIN out.events :
             /\ out.events[i] \in match
             /\ \A k \in DOMAIN out.events : out.events[k] = out.events[i] => k = i
             /\ Cardinality({m \in match : at(m) > at(out.events[i])}) <= out.offset + i - 1
             /\ Cardinality({m \in match : at(m) >= at(out.events[i])}) >= out.offset + i
       /\ (Len(order) = 3 /\ in.status = "" /\ in.limit = Num(2) /\ in.offset = Num(2)
             /\ at("e1") < at("e2") /\ at("e2") < at("e3"))
            => out.events = <<"e2">>

\* C23 witness: limit 1 and offset 1 over three events received at three times
C23_Witness ==
  /\ reply.op = "listEvents"
  /\ reply.arg = [status |-> "", limit |-> Num(2), offset |-> Num(2)]
  /\ Len(order) = 3
  /\ events["e1"].received_at < events["e2"].received_at
  /\ events["e2"].received_at < events["e3"].received_at
  /\ reply.val = [total |-> 3, limit |-> 1, offset |-> 1, events |-> <<"e2">>]

\* the text of a string argument, without the white space around it
Text(pieces) ==
  IF \E i \in DOMAIN pieces : pieces[i] # Space
  THEN pieces[CHOOSE i \in DOMAIN pieces : pieces[i] # Space]
  ELSE ""

\* C24: setGateway sets the URL to the trimmed argument when a URL is provided and
\* keeps it otherwise, the same for the token; it changes no event and nothing in
\* progress; every gateway call started afterwards is given the URL and the token the
\* last setGateway left.
C24_SetGateway ==
  /\ [][\A input \in GatewayInputs :
          setGateway(input) =>
            /\ gatewayUrl' = IF input.gatewayUrl.given THEN Text(input.gatewayUrl.pieces)
                             ELSE gatewayUrl
            /\ gatewayAuthToken' =
                 IF input.gatewayAuthToken.given THEN Text(input.gatewayAuthToken.pieces)
                 ELSE gatewayAuthToken
            /\ UNCHANGED <<events, order, procs, persistQueue, running, worker, server,
                           calls, disk, writing>>]_vars
  /\ [][\A p \in Procs :
          (procs'[p].pc = "fetch" /\ procs[p].pc # "fetch") =>
             /\ procs'[p].url = gatewayUrl
             /\ procs'[p].token = gatewayAuthToken
             /\ gatewayUrl # ""]_vars

\* C24 witness: the relay started without a gateway; a call is in flight to the URL and
\* with the token that setGateway calls left, each given within white space
C24_Witness ==
  \E p \in Procs :
    /\ procs[p].pc = "fetch"
    /\ procs[p].url = "gw2"
    /\ procs[p].token = "tk"
    /\ gatewayUrl = "gw2"
    /\ gatewayAuthToken = "tk"

\* the property value is a string with text in it
Usable(v) == v.kind = "string" /\ Text(v.pieces) # ""

\* the payload has a usable id property
HasUsableId(payload) ==
  payload.isObject /\ \E v \in {payload.id, payload.event_id, payload.eventId} : Usable(v)

\* the id derived from the bytes of a body
DerivedId(rawBody) == "evt_" \o Sha256Hex24(rawBody)

\* C25: a body whose payload has no usable id property resolves to the derived id, the
\* prefix evt_ and a digest of the bytes alone; a second ingestion of the same bytes is
\* answered as a duplicate and creates no record.
C25_FallbackIdentity ==
  /\ [](\A body \in Bodies :
          ~HasUsableId(body.payload) =>
             extractEventId(body.payload, body.bytes) = DerivedId(body.bytes))
  /\ [][\A body \in Bodies :
          (~HasUsableId(body.payload) /\ Stored(DerivedId(body.bytes)) /\ receiveBody(body))
            => /\ receiveResult(TRUE, TRUE, extractEventId(body.payload, body.bytes)) =
                    [status |-> 200, duplicate |-> TRUE,
                     evStatus |-> events[DerivedId(body.bytes)].status]
               /\ events' = events
               /\ order' = order
               /\ persistQueue' = persistQueue]_vars

\* C25 witness: two bodies without usable id were each sent twice; one record each
C25_Witness ==
  /\ inbox[DerivedId("b1")] = MaxSends - 2
  /\ inbox[DerivedId("b3")] = MaxSends - 2
  /\ Stored(DerivedId("b1"))
  /\ Stored(DerivedId("b3"))
  /\ Len(order) = 2

\* the first of the values that is usable, or Missing
FirstUsable(values) ==
  IF \E i \in DOMAIN values : Usable(values[i])
  THEN values[CHOOSE i \in DOMAIN values :
                /\ Usable(values[i])
                /\ \A k \in 1..(i - 1) : ~Usable(values[k])]
  ELSE Missing

\* C26: for an object payload extractEventId returns the trimmed value of the first of
\* id, event_id, eventId that is a non-empty string, and the derived id only when none
\* is; extractEventType returns the first such of type, event_type, eventType, or null.
C26_FieldPriority ==
  reply.op = "extract" =>
    LET p == reply.arg.payload
        id == FirstUsable(<<p.id, p.event_id, p.eventId>>)
        type == FirstUsable(<<p.type, p.event_type, p.eventType>>)
    IN /\ reply.val.id = IF p.isObject /\ id # Missing THEN Text(id.pieces)
                         ELSE DerivedId(reply.arg.bytes)
       /\ reply.val.type = IF p.isObject /\ type # Missing
                           THEN JsString(<<Text(type.pieces)>>)
                           ELSE JsNull

\* C27: every gateway call settles: a call that gets no response is aborted and
\* recorded as a failed attempt, so no attempt stays in flight forever.
C27_CallsAreBounded ==
  \A p \in Procs : (procs[p].pc = "fetch") ~> (procs[p].pc # "fetch")

\* C28: when stop() resolves the timer is cancelled and no persistence write is in
\* progress: a write in flight when stop() was called has finished by then.
C28_StopAwaitsWrites ==
  [][serverClosed => (~worker' /\ persistQueue' = <<>> /\ writing' = NoWrite)]_vars

\* C29: when the listener cannot bind, the relay's start() fails with running false and
\* no timer, and they stay so; the server's start() rejects, having started no tool
\* discovery and no refresh timer, and none is started afterwards.
C29_BindFailureAborts ==
  /\ [][start(FALSE) => (server' = "error" /\ ~running' /\ ~worker')]_vars
  /\ [](server = "error" =>
          /\ ~running
          /\ ~worker
          /\ mcp.started \in {"relay_starting", "rejected"}
          /\ mcp.discoveries = 0
          /\ ~mcp.refreshPromise
          /\ ~mcp.refreshTimer
          /\ ~mcp.connected)
  /\ [][(server = "error" /\ mcpResume) => mcp'.started = "rejected"]_vars
  /\ [](server = "error" => ENABLED (mcpResume \/ main) \/ mcp.exited)

\* C29 witness: the bind failed on a store file with an event in it, start() rejected
\* and main exited
C29_Witness ==
  /\ server = "error"
  /\ order # <<>>
  /\ mcp.started = "rejected"
  /\ mcp.exited

\* C30: once delivered_at holds a value no operation changes it, a replay followed by
\* a second successful delivery included.
C30_DeliveredAtOnce ==
  [][\A id \in Ids :
       (Stored(id) /\ events[id].delivered_at # Null) =>
          (events'[id] # NoEvent /\ events'[id].delivered_at = events[id].delivered_at)]_vars

\* ------------------------------------------------ C31
\* what ingestion fixes in a record
Identity(ev) == <<ev.id, ev.type, ev.payload, ev.received_at>>

RECURSIVE NoRepeat(_)
NoRepeat(seq) ==
  seq = <<>> \/ ((\A i \in 2..Len(seq) : seq[i] # seq[1]) /\ NoRepeat(Tail(seq)))

\* C31: the set of stored ids only grows, the store holds one record per id, filed under
\* its own id, and no step (a duplicate ingestion, a delivery attempt, a replay) changes
\* the id, type, payload or received_at of a stored record.
C31_IdentityKept ==
  [][/\ \A id \in Ids :
          Stored(id) => Stored(id)' /\ Identity(events'[id]) = Identity(events[id])
     /\ \A id \in Ids : Stored(id)' => events'[id].id = id
     /\ NoRepeat(order')
     /\ \A id \in Ids : Stored(id)' <=> \E i \in DOMAIN order' : order'[i] = id]_vars

\* the event was sent again with another type, attempted and replayed
C31_Witness ==
  /\ Stored("e1")
  /\ inbox["e1"] = 0
  /\ replayLeft = 0
  /\ events["e1"].attempt_count >= 2
  /\ events["e1"].type = JsString(<<"first">>)
  /\ events["e1"].payload = [Object(JsString(<<"e1">>), Missing, Missing)
                               EXCEPT !.type = JsString(<<"first">>)]

\* ------------------------------------------------ C32
HttpSettled == http.pc \in {"fulfilled", "rejected"}

\* C32: a fetchWithTimeout call whose fetch is still unsettled when timeoutMs has
\* passed gets its signal aborted and then rejects with the abort error; a fetch that
\* settles before the abort hands its response or its error through unchanged; and once
\* the call has settled the timer is cancelled and the signal is never aborted afterwards.
C32_FetchWithTimeout ==
  /\ (http.pc = "pending" /\ now >= http.deadline) ~> (http.aborted \/ HttpSettled)
  /\ (http.pc = "pending" /\ http.aborted)
       ~> (http.pc = "rejected" /\ http.result = "AbortError")
  /\ [][(http.pc = "pending" /\ ~http.aborted /\ HttpSettled')
          => /\ http'.result = http.plan.outcome
             /\ http'.pc = IF http.plan.outcome = "error" THEN "rejected" ELSE "fulfilled"]_vars
  /\ [](HttpSettled => ~http.timer)
  /\ [][HttpSettled => (HttpSettled' /\ http'.aborted = http.aborted
                         /\ http'.result = http.result)]_vars

\* a fetch that never answers was aborted at its deadline and the call rejected
C32_Witness ==
  /\ http.plan.outcome = "never"
  /\ http.pc = "rejected"
  /\ http.result = "AbortError"
  /\ http.aborted
  /\ ~http.timer

\* ------------------------------------------------ C33
\* the (method, normalized path) pairs the docs of service mention, when the service
\* has a usable id and its docs were fetched
Contributes(service, pair) ==
  /\ safeServiceId(service.id) # ""
  /\ service.docs.res = "ok"
  /\ \E i \in DOMAIN service.docs.mentions :
        /\ service.docs.mentions[i].method = pair[1]
        /\ normalizeDiscoveredPath(service.docs.mentions[i].raw) = pair[2]
        /\ pair[2] # NullPath

\* C33: the list discoverEndpoints returns holds exactly one endpoint for every
\* (method, normalized path) pair mentioned by the fetched docs of a service with a usable
\* id, however often and in however many services it is mentioned, and nothing else; it is
\* sorted by tool name; when a request throws it returns no list.
C33_Discovery ==
  reply.op = "discover" =>
    LET services == reply.arg.services
        list == reply.val.list
        Sources(pair) == {k \in DOMAIN services : Contributes(services[k], pair)}
    IN /\ reply.val.kind = "rejected" => list = <<>>
       /\ \A i \in DOMAIN list, j \in DOMAIN list :
             i < j => /\ <<list[i].method, list[i].path>> # <<list[j].method, list[j].path>>
                      /\ ~localeBefore(list[j].toolName, list[i].toolName)
       /\ \A i \in DOMAIN list :
             /\ \E k \in Sources(<<list[i].method, list[i].path>>) :
                   list[i].serviceId = safeServiceId(services[k].id)
             /\ list[i].toolName = toToolName(list[i].serviceId, list[i].method, list[i].path)
       /\ reply.val.kind = "returned" =>
             \A pair \in Methods \X {normalizeDiscoveredPath(raw) : raw \in RawPaths} :
               Sources(pair) # {} => \E i \in DOMAIN list :
                                       <<list[i].method, list[i].path>> = pair

\* two services mention the same pair, one of them twice and in two spellings of the
\* path; a third mention lies outside /api/: one endpoint is returned
C33_Witness ==
  /\ reply.op = "discover"
  /\ reply.val.kind = "returned"
  /\ Len(reply.val.list) = 1
  /\ Len(reply.arg.services) = 2
  /\ \A k \in 1..2 : Contributes(reply.arg.services[k], <<"GET", <<"api", "x">>>>)
  /\ safeServiceId(reply.arg.services[1].id) # safeServiceId(reply.arg.services[2].id)
  /\ reply.arg.services[1].docs.mentions =
       <<[method |-> "GET", raw |-> <<"api", "x">>], [method |-> "GET", raw |-> <<"api", "", "x">>]>>
  /\ reply.arg.services[2].docs.mentions =
       <<[method |-> "GET", raw |-> <<"docs", "x">>], [method |-> "GET", raw |-> <<"api", "x">>]>>

\* ------------------------------------------------ C34
\* p runs a scan (a processDueEvents call of the timer or of an ingestion)
Scans(p) == procs[p].kind \in {"tick", "ingest"} /\ procs[p].pc \in {"fetch", "persist"}

\* C34: the step that starts a scan fixes its list: the events due at that moment, each
\* once, in ascending order of the next_attempt_at they have at that moment; the scan
\* starts its attempts in the order of that list, and it starts the next one only in the
\* step in which the write of the previous attempt's outcome has finished and left the
\* persistence queue.
C34_ScanOrder ==
  [][\A p \in Procs :
       LET was == procs[p]
           is == procs'[p]
           list == <<is.cur>> \o is.due
       IN /\ (~Scans(p) /\ Scans(p)') =>
               /\ is.pc = "fetch"
               /\ {list[i] : i \in DOMAIN list} = {id \in Ids : IsDue(events, id, now)}
               /\ \A i \in DOMAIN list, j \in DOMAIN list :
                     i < j => /\ list[i] # list[j]
                              /\ events[list[i]].next_attempt_at
                                   <= events[list[j]].next_attempt_at
          /\ (Scans(p) /\ Scans(p)' /\ is.pc = "fetch" /\ was.pc # "fetch") =>
               /\ was.pc = "persist"
               /\ persistQueue # <<>> /\ Head(persistQueue) = p
               /\ \A i \in DOMAIN persistQueue' : persistQueue'[i] # p
               /\ was.due # <<>>
               /\ is.cur = Head(was.due)
               /\ is.due = Tail(was.due)
          /\ (Scans(p) /\ Scans(p)' /\ ~(is.pc = "fetch" /\ was.pc # "fetch")) =>
               (is.due = was.due /\ is.cur = was.cur)]_vars

\* a scan took the later-stored event first because it was due earlier, and has the
\* earlier-stored one still on its list
C34_Witness ==
  \E p \in Procs :
    /\ Scans(p)
    /\ order = <<"e1", "e2">>
    /\ procs[p].cur = "e2"
    /\ procs[p].due = <<"e1">>
    /\ events["e2"].next_attempt_at < events["e1"].next_attempt_at

\* ------------------------------------------------ C35
\* C35: at most one gateway call started by an automatic scan (of the timer or of an
\* ingestion) is in flight.
C35_BoundedLoad ==
  Cardinality({p \in Procs : procs[p].kind \in {"tick", "ingest"} /\ procs[p].pc = "fetch"}) <= 1

\* ------------------------------------------------ C36
\* C36: with the relay running and a gateway configured, the step in which the write of
\* a newly accepted event finishes starts a scan whose list holds that event (unless
\* another scan has attempted it meanwhile), and the event's first attempt is started
\* even if the timer never fires.
C36_ImmediateScan ==
  /\ [][\A p \in Procs :
          (procs[p].pc = "persistRx" /\ procs'[p].pc # "persistRx"
             /\ running /\ gatewayUrl # "" /\ events[procs[p].cur].attempt_count = 0)
          => /\ procs'[p].kind = "ingest"
             /\ procs'[p].pc = "fetch"
             /\ \E i \in 1..(1 + Len(procs'[p].due)) :
                   (<<procs'[p].cur>> \o procs'[p].due)[i] = procs[p].cur]_vars
  /\ \A id \in Ids :
        (running /\ gatewayUrl # "" /\ \E p \in Procs : procs[p].pc = "persistRx"
                                                          /\ procs[p].cur = id)
          ~> (Stored(id) /\ events[id].attempt_count >= 1)

\* without a timer tick, both events were accepted and both were attempted
C36_Witness ==
  /\ running
  /\ order = <<"e1", "e2">>
  /\ events["e1"].attempt_count >= 1
  /\ events["e2"].attempt_count >= 1
  /\ events["e2"].status = "delivered"

\* ------------------------------------------------ C37
\* no relayEvent call for id is between its fetchImpl call and its return
NoAttemptUnderway(id) ==
  \A p \in Procs : ~(procs[p].cur = id /\ procs[p].pc \in {"fetch", "persist"})

C38_NoAttemptAfterStop ==
  [][(server \in {"closing", "closed"}) =>
       \A p \in Procs :
         (procs'[p].kind \in {"tick", "ingest"} /\ procs'[p].pc = "fetch")
           => procs[p].pc = "fetch"]_vars

\* the refreshToolsFromOttoauth call made in this step, if one was made
Called == Len(mcp'.refreshCalls) = Len(mcp.refreshCalls) + 1
TheCall == mcp'.refreshCalls[Len(mcp'.refreshCalls)]

\* C39: tool refresh is single-flight. At most one discovery is in progress at any
\* time, and refreshPromise is set exactly while one is; a call made while a
\* discovery is in progress starts no second discovery and awaits the one in
\* progress; a call made while none is in progress starts a new discovery; when a
\* discovery settles, every call that awaits it settles with its outcome, so the
\* calls of one discovery never differ in their outcome.
C39_SingleFlight ==
  /\ [](Cardinality(mcp.inProgress) <= 1)
  /\ [](mcp.refreshPromise <=> mcp.inProgress # {})
  /\ [][(Called /\ mcp.inProgress # {}) =>
          /\ mcp'.discoveries = mcp.discoveries
          /\ mcp'.inProgress = mcp.inProgress
          /\ ~TheCall.leads
          /\ TheCall.discovery \in mcp.inProgress]_vars
  /\ [][(Called /\ mcp.inProgress = {}) =>
          /\ mcp'.discoveries = mcp.discoveries + 1
          /\ mcp'.inProgress = {mcp'.discoveries}
          /\ TheCall.leads
          /\ TheCall.discovery = mcp'.discoveries]_vars
  /\ [][\A d \in mcp.inProgress, input \in RefreshAnswers :
          discoveryDone(d, discoverEndpoints(input)) =>
            \A i \in DOMAIN mcp.refreshCalls :
              mcp.refreshCalls[i].discovery = d =>
                mcp'.refreshCalls[i].outcome = settledAs(discoverEndpoints(input))]_vars
  /\ [](\A i \in DOMAIN mcp.refreshCalls :
          /\ (mcp.refreshCalls[i].outcome = "pending"
               <=> mcp.refreshCalls[i].discovery \in mcp.inProgress)
          /\ \A j \in DOMAIN mcp.refreshCalls :
               mcp.refreshCalls[i].discovery = mcp.refreshCalls[j].discovery =>
                 mcp.refreshCalls[i].outcome = mcp.refreshCalls[j].outcome)

\* the initial refresh has settled, the timer's call started a second discovery, a
\* tool's call joined it, and both settled with its failure
C39_Witness ==
  /\ Len(mcp.refreshCalls) = 3
  /\ mcp.refreshCalls[1].outcome = "fulfilled"
  /\ mcp.refreshCalls[2].via = "timer"
  /\ mcp.refreshCalls[2].leads
  /\ mcp.refreshCalls[3].via = "tool"
  /\ ~mcp.refreshCalls[3].leads
  /\ mcp.refreshCalls[3].discovery = 2
  /\ mcp.refreshCalls[3].outcome = "rejected"
  /\ mcp.discoveries = 2

====
